---- MODULE Spec2Model ----
(***************************************************************************)
(* Model of go-spring's defaultSpringContext and defaultBeanAssembly        *)
(* (spring-core/spring-context-default.go): bean registration, the          *)
(* one-shot AutoWireBeans pass (method-bean finalization, resolveBean,      *)
(* wireBeanDefinition), the Bean Cache, the Wiring Stack and the            *)
(* post-wiring lookups.                                                     *)
(*                                                                          *)
(* A BeanDefinition is identified by its index in defs (the order in which  *)
(* the definitions were created by the Register* calls).  Go's map          *)
(* iteration order is unspecified: every range over ctx.beanMap is a        *)
(* nondeterministic choice of order.                                        *)
(***************************************************************************)
EXTENDS Integers, Sequences, FiniteSets, TLC

\* Bound: number of BeanDefinitions a context may be given.
MaxBeans == 3

(***************************************************************************)
(* Types.  "A", "B", "C" are pointer-to-struct types, "I" is an interface     *)
(* implemented by "A" only, "S" is a struct (non reference) type that can   *)
(* only occur as the type of a lookup target.                               *)
(***************************************************************************)
ConcreteTypes == {"A", "B", "C"}
Interfaces == {"I"}
TargetTypes == ConcreteTypes \cup Interfaces \cup {"S"}

Implements(t, i) == t = "A" /\ i = "I"

AssignableTo(t, target) == t = target \/ (target \in Interfaces /\ Implements(t, target))

IsRefType(t) == t # "S"

\* The error kinds raised by panic(...) in the source, and "no error".
NoErr == "none"

\* Status constants of a BeanDefinition and their numeric order.
StatusRank(st) ==
    CASE st = "Default" -> 0
      [] st = "Resolving" -> 1
      [] st = "Resolved" -> 2
      [] st = "Wiring" -> 3
      [] st = "Wired" -> 4
      [] st = "Deleted" -> 5

VARIABLES
    defs,         \* the BeanDefinitions created so far (immutable part), by index
    status,       \* status[i]: the status field of definition i
    hist,         \* hist[i]: the values the status field of definition i has held, in order
    dispatched,   \* dispatched[i]: at each dispatch of the provider of definition i, the
                  \* beans its dependsOn selectors select and the status each was in
    called,       \* called[i]: at each call of the function of definition i, its parent
                  \* and the beans passed as arguments and the status each was in
    parent,       \* parent[i]: parent of a finalized method bean, 0 while fakeMethodBean / not a method bean
    beanMap,      \* ctx.beanMap, as the set of definitions stored in it
    methodBeans,  \* ctx.methodBeans: pending method beans, in registration order
    autoWired,    \* ctx.autoWired
    beanCache,    \* ctx.beanCache: type -> sequence of definitions
    wiringStack,  \* the Wiring Stack of the current (or last) assembly session
    vals,         \* vals[i][k]: bean assigned to the k-th injection point of bean i (0: not written)
    provCnt,      \* provCnt[i]: number of times the provider of bean i was dispatched
    initCnt,      \* initCnt[i]: number of times the init callback of bean i ran
    wiredCnt,     \* wiredCnt[i]: number of transitions of bean i to Wired
    target,       \* the value handed to the last GetBean/GetBeanByName, or the field of the
                  \* external bean of the last WireBean (0: not written)
    phase,        \* position inside AutoWireBeans: "idle", "resolve" or "wire"
    todo,         \* entries the running range loop of AutoWireBeans has not visited yet
    invoked,      \* AutoWireBeans has been invoked at least once
    eventNotify,  \* ctx.eventNotify is set (an event observer is installed)
    Sort,         \* ctx.Sort
    cancelled,    \* ctx.cancel() has been called: the Context's Done channel is closed
    visited,      \* the beans the wiring loop of the current (or last) AutoWireBeans handed
                  \* to wireBeanDefinition, in order
    sessions,     \* sessions[p]: the GetBean, FindBean or CollectBeans call that thread p is in
    trace,        \* what the observers of the current (or last) call were told, in order
    last          \* the last completed (or running) API call and its outcome

vars == <<defs, status, hist, dispatched, called, parent, beanMap, methodBeans, autoWired, beanCache, wiringStack,
          vals, provCnt, initCnt, wiredCnt, target, phase, todo, invoked, eventNotify, Sort,
          cancelled, sessions, visited, trace, last>>

Ids == 1..Len(defs)

\* bd.name after defaulting: an empty name is replaced by the type's name.
NameOf(d) == IF d.name = "" THEN d.type ELSE d.name

\* beanKey{rType, name}
KeyOf(d) == <<d.type, NameOf(d)>>

\* BeanDefinition.Match(typeName, beanName): empty strings match anything.
Match(d, typeName, beanName) ==
    /\ (typeName = "" \/ typeName = d.type)
    /\ (beanName = "" \/ beanName = NameOf(d))

(***************************************************************************)
(* The assembly operators work on a session record s that carries the       *)
(* mutable state through one API call: the statuses, ctx.beanMap,           *)
(* ctx.beanCache, the session's Wiring Stack, the written value slots, the  *)
(* counters, and the outcome (err: the panic raised, NoErr if none).  A     *)
(* panic unwinds the whole call: every operator returns s unchanged once    *)
(* s.err is set.  s.ord is the order in which a range over ctx.beanMap      *)
(* yields the definitions; s.ext describes the external bean of WireBean.   *)
(***************************************************************************)
Panic(s, e, bs) == [s EXCEPT !.err = e, !.errBeans = bs]

\* An entry of the trace: a WiringWatcher call ("push", "pop"), a ContextEvent
\* ("event", named by role), or the run of a provider or of an init callback.
Event(ev, f) == [ev |-> ev, id |-> f.id, role |-> f.role]
ContextEvent(name) == [ev |-> "event", id |-> 0, role |-> name]

\* A context that never tells its observer anything
NotifyNever(tr, name) == tr

\* "if ctx.eventNotify != nil { ctx.eventNotify(event) }"
Notify(tr, name) == IF eventNotify THEN Append(tr, ContextEvent(name)) ELSE tr

\* A frame of the Wiring Stack: a registered definition, the delegate definition
\* wrapping the value returned by a function bean, or WireBean's external bean.
BeanFrame(b) == [id |-> b, role |-> "bean"]
DelegateFrame(b) == [id |-> b, role |-> "delegate"]
ExternalFrame == [id |-> 0, role |-> "external"]

\* wiringStack.pushBack
pushBack(s, f) ==
    [s EXCEPT !.wiringStack = Append(@, f), !.trace = Append(@, Event("push", f))]

\* wiringStack.popBack: removes whatever frame is at the back
popBack(s) ==
    [s EXCEPT !.wiringStack = SubSeq(@, 1, Len(@) - 1),
              !.trace = Append(@, Event("pop", s.wiringStack[Len(s.wiringStack)]))]

\* defaultBeanAssembly.getCacheItem: a missing entry reads as empty, nothing is created
getCacheItem(s, t) == IF t \in DOMAIN s.beanCache THEN s.beanCache[t] ELSE <<>>

\* findCacheItem(t).store(t, bd): creates the entry when missing, appends bd
store(s, t, b) ==
    LET c == s.beanCache
    IN [s EXCEPT !.beanCache =
            [x \in DOMAIN c \cup {t} |->
                IF x = t THEN (IF t \in DOMAIN c THEN Append(c[t], b) ELSE <<b>>)
                ELSE c[x]]]

\* "bd.status = st"
assignStatus(s, b, st) == [s EXCEPT !.status[b] = st, !.hist[b] = Append(@, st)]

\* A deletion that leaves the definition in ctx.beanMap
deleteBeanDefinitionKept(s, b) == assignStatus(s, b, "Deleted")

\* deleteBeanDefinition: status Deleted, the entry under the bean's key is removed
deleteBeanDefinition(s, b) ==
    [assignStatus(s, b, "Deleted") EXCEPT
        !.beanMap = {x \in @ : KeyOf(defs[x]) # KeyOf(defs[b])}]

\* A resolveBean that stores no bean under its export types
storeExportsNone(s, b, k) == s

\* The export loop of resolveBean, from the k-th export on.
RECURSIVE storeExports(_, _, _)
storeExports(s, b, k) ==
    IF k > Len(defs[b].exports) THEN s
    ELSE LET t == defs[b].exports[k]
         IN IF ~Implements(defs[b].type, t) THEN Panic(s, "ExportMismatch", <<b>>)
            ELSE storeExports(store(s, t, b), b, k + 1)

\* The end of resolveBean
resolved(s, b) ==
    IF s.err # NoErr THEN s
    ELSE assignStatus(s, b, "Resolved")

\* A resolveBean that stores the bean in the Bean Cache before it checks its condition
resolveSelfStoredFirst(s, b) ==
    IF s.err # NoErr THEN s
    ELSE IF ~defs[b].cond THEN deleteBeanDefinition(store(s, defs[b].type, b), b)
    ELSE resolved(storeExports(store(s, defs[b].type, b), b, 1), b)

\* resolveBean after the parent of a method bean has been resolved
resolveSelf(s, b) ==
    IF s.err # NoErr THEN s
    ELSE IF parent[b] # 0 /\ s.status[parent[b]] = "Deleted" THEN deleteBeanDefinition(s, b)
    ELSE IF ~defs[b].cond THEN deleteBeanDefinition(s, b)
    ELSE resolved(storeExports(store(s, defs[b].type, b), b, 1), b)

\* resolveBean
RECURSIVE resolveBean(_, _)

\* A resolveBean that does not look at the status of the bean
resolveBeanAgain(s, b) ==
    IF s.err # NoErr THEN s
    ELSE resolveSelf(IF parent[b] # 0
                         THEN resolveBean(assignStatus(s, b, "Resolving"), parent[b])
                         ELSE assignStatus(s, b, "Resolving"),
                     b)

resolveBean(s, b) ==
    IF s.err # NoErr THEN s
    ELSE IF StatusRank(s.status[b]) > StatusRank("Default") THEN s
    ELSE resolveSelf(IF parent[b] # 0
                         THEN resolveBean(assignStatus(s, b, "Resolving"), parent[b])
                         ELSE assignStatus(s, b, "Resolving"),
                     b)

\* The filter FindBean builds from its selector: a BeanId string or a type.
SelectorMatches(sel, d) ==
    IF sel.kind = "string" THEN Match(d, sel.typeName, sel.beanName)
    ELSE AssignableTo(d.type, sel.type)

\* The finder closure of FindBean: the range over ctx.beanMap from position k of s.ord.
RECURSIVE finder(_, _, _, _)
RECURSIVE found(_, _, _, _)
finder(s, sel, k, result) ==
    IF s.err # NoErr \/ k > Len(s.ord) THEN [s EXCEPT !.result = result]
    ELSE LET b == s.ord[k]
         IN IF b \notin s.beanMap \/ ~SelectorMatches(sel, defs[b])
                THEN finder(s, sel, k + 1, result)
            ELSE IF s.status[b] = "Resolving" THEN finder(s, sel, k + 1, result)
            ELSE found(resolveBean(s, b), sel, k, result)

\* One iteration of the finder's range, after resolveBean returned
found(s, sel, k, result) ==
    finder(s, sel, k + 1,
           IF s.err = NoErr /\ s.status[s.ord[k]] # "Deleted"
               THEN Append(result, s.ord[k]) ELSE result)

\* A context that lets every call of the post-wiring API through
checkAutoWiredSkipped == TRUE

\* checkAutoWired
checkAutoWired == autoWired

\* The end of FindBean, on the result of the finder
findResult(s) ==
    IF s.err # NoErr THEN s
    ELSE IF Len(s.result) = 0 THEN [s EXCEPT !.found = 0, !.ok = FALSE]
    ELSE IF Len(s.result) > 1 THEN Panic(s, "AmbiguousBean", s.result)
    ELSE [s EXCEPT !.found = s.result[1], !.ok = TRUE]

\* FindBean: s.found is the definition returned (0: nil, false)
FindBean(s, sel) ==
    IF s.err # NoErr THEN s
    ELSE IF ~checkAutoWired THEN Panic(s, "NotYetWired", <<>>)
    ELSE findResult(finder(s, sel, 1, <<>>))

(***************************************************************************)
(* wireBeanDefinition and the operators it recurses through.                *)
(*                                                                          *)
(* A bean of the slice type "[]A" holds defs[d].elems pointers to structs;  *)
(* each of them is wired behind a fresh definition (ValueToBeanDefinition). *)
(***************************************************************************)
SliceTypes == {"[]A"}
ElemType(t) == "A"
ElementFrame(d) == [id |-> d, role |-> "element"]

\* A wiring that takes every definition for a new one
getStatusDefault(s, f) == "Default"

\* bd.getStatus(): delegate and external definitions are created with status
\* Default right before they are wired and are referenced from nowhere else.
getStatus(s, f) == IF f.role = "bean" THEN s.status[f.id] ELSE "Default"

\* bd.setStatus(); a registered bean's transitions to Wired are counted
setStatus(s, f, st) ==
    IF f.role # "bean" THEN s
    ELSE [assignStatus(s, f.id, st) EXCEPT
             !.wiredCnt[f.id] = IF st = "Wired" THEN @ + 1 ELSE @]

\* The provider variant behind bd.springBean()
KindOf(f) == IF f.role = "bean" THEN defs[f.id].kind ELSE "object"

\* The injection points of the value behind a frame
DepsOf(s, f) ==
    IF f.role = "external" THEN s.ext.deps
    ELSE IF f.role = "element" THEN <<>>
    ELSE defs[f.id].deps

getDependsOn(f) == IF f.role = "bean" THEN defs[f.id].dependsOn ELSE <<>>

\* A wiring that knows of no init callback
getInitNone(f) == FALSE

getInit(f) == f.role = "bean" /\ defs[f.id].init

\* A wiring that lets any bean be re-entered while it is Wiring
CircleToleratedAlways(kind) == TRUE

\* A wiring that lets no bean be re-entered while it is Wiring
CircleToleratedNever(kind) == FALSE

\* A bean re-entered in status Wiring is tolerated only if it is an objectBean.
CircleTolerated(kind) == kind = "object"

\* A lookup that stops at the first bean cached under the target's type
CandidatesFirst(s, t, sel, parentId) ==
    IF getCacheItem(s, t) = <<>> THEN <<>> ELSE <<getCacheItem(s, t)[1]>>

\* The candidates of getBeanValue: cache entries of the target's type that are not
\* the value being injected into, are assignable and match the selector.
Candidates(s, t, sel, parentId) ==
    LET Keep(b) == /\ b # parentId
                   /\ AssignableTo(defs[b].type, t)
                   /\ Match(defs[b], sel.typeName, sel.beanName)
    IN SelectSeq(getCacheItem(s, t), Keep)

\* A lookup that ignores the primary flag
PrimaryBeansNone(result) == <<>>

\* The candidates flagged primary
PrimaryBeans(result) ==
    LET IsPrimary(b) == defs[b].primary
    IN SelectSeq(result, IsPrimary)

\* v.Set(bean.Value()): slot <<0, 0>> is the target of GetBean, <<i, k>> the k-th
\* injection point of registered bean i, <<0, k>> a field of WireBean's external bean.
setSlot(s, slot, b) ==
    IF slot[1] = 0 THEN [s EXCEPT !.target = b]
    ELSE [s EXCEPT !.vals[slot[1]][slot[2]] = b]

\* The end of getBeanValue, once the chosen bean b has been wired
assign(s, slot, b) ==
    IF s.err # NoErr THEN s
    ELSE [setSlot(s, slot, b) EXCEPT !.ok = TRUE]

RECURSIVE wireBeanDefinition(_, _)
RECURSIVE getBeanValue(_, _, _, _, _)
RECURSIVE wireDependsOn(_, _, _)
RECURSIVE wireObjectBean(_, _, _)
RECURSIVE wireFunctionArgs(_, _, _)
RECURSIVE wireFunctionBean(_, _)
RECURSIVE wireSliceBean(_, _, _)
RECURSIVE wireParent(_, _)
RECURSIVE wireFound(_)
RECURSIVE callFunction(_, _)

\* getBeanValue(v, beanId, parentValue, field): s.ok is the value returned
getBeanValue(s, t, sel, parentId, slot) ==
    IF s.err # NoErr THEN s
    ELSE IF ~IsRefType(t) THEN Panic(s, "InvalidTarget", <<>>)
    ELSE LET result == Candidates(s, t, sel, parentId)
             count == Len(result)
             primaryBeans == PrimaryBeans(result)
         IN IF count = 0
                THEN (IF sel.nullable THEN [s EXCEPT !.ok = FALSE]
                      ELSE Panic(s, "BeanNotFound", <<>>))
            ELSE IF Len(primaryBeans) > 1 THEN Panic(s, "AmbiguousPrimary", primaryBeans)
            ELSE IF Len(primaryBeans) = 0 /\ count > 1 THEN Panic(s, "AmbiguousBean", result)
            ELSE LET chosen == IF Len(primaryBeans) = 0 THEN result[1] ELSE primaryBeans[1]
                 IN assign(wireBeanDefinition(s, BeanFrame(chosen)), slot, chosen)

\* A wiring that does not look at the dependsOn selectors
wireDependsOnSkipped(s, f, k) == s

\* The dependsOn loop of wireBeanDefinition, from the k-th selector on
wireDependsOn(s, f, k) ==
    IF s.err # NoErr \/ k > Len(getDependsOn(f)) THEN s
    ELSE wireDependsOn(wireFound(FindBean(s, getDependsOn(f)[k])), f, k + 1)

\* One iteration of the dependsOn loop, after FindBean returned
wireFound(s) ==
    IF s.err # NoErr THEN s
    ELSE IF ~s.ok THEN Panic(s, "BeanNotFound", <<>>)
    ELSE wireBeanDefinition(s, BeanFrame(s.found))

\* A wiring that leaves the parent of a method bean alone
wireParentSkipped(s, f) == s

\* A method bean's parent is wired before the bean itself
wireParent(s, f) ==
    IF s.err = NoErr /\ KindOf(f) = "method"
        THEN wireBeanDefinition(s, BeanFrame(parent[f.id]))
        ELSE s

\* wireObjectBean: the field loop over a pointer-to-struct value, from field k on;
\* every field tagged autowire goes through wireStructField to getBeanValue.
wireObjectBean(s, f, k) ==
    IF s.err # NoErr \/ k > Len(DepsOf(s, f)) THEN s
    ELSE LET dep == DepsOf(s, f)[k]
         IN IF dep.via # "field" THEN wireObjectBean(s, f, k + 1)
            ELSE wireObjectBean(getBeanValue(s, dep.type, dep.sel, f.id, <<f.id, k>>), f, k + 1)

\* wireObjectBean on a slice of struct pointers: every element is wired, from the i-th on
wireSliceBean(s, f, i) ==
    IF s.err # NoErr \/ i > defs[f.id].elems THEN s
    ELSE wireSliceBean(wireBeanDefinition(s, ElementFrame(f.id)), f, i + 1)

\* bean.arg.Get(beanAssembly, bd): the arguments of a function bean, from the k-th on
wireFunctionArgs(s, f, k) ==
    IF s.err # NoErr \/ k > Len(DepsOf(s, f)) THEN s
    ELSE LET dep == DepsOf(s, f)[k]
         IN IF dep.via # "arg" THEN wireFunctionArgs(s, f, k + 1)
            ELSE wireFunctionArgs(getBeanValue(s, dep.type, dep.sel, 0, <<f.id, k>>), f, k + 1)

\* wireFunctionBean: arguments, the call, the checks of its results, then the
\* returned value is wired as an object bean behind a delegateBeanDefinition.
wireFunctionBean(s, f) == callFunction(wireFunctionArgs(s, f, 1), f)

\* A bean the function of a function bean works on: its receiver or an argument
Passed(s, c, via) ==
    [on |-> c, via |-> via, status |-> s.status[c],
     wiring |-> \E i \in DOMAIN s.wiringStack : s.wiringStack[i] = BeanFrame(c)]

\* The parent of method bean f and the beans injected as the arguments of f, each with
\* the status it is in and whether it is on the Wiring Stack
PassedBeans(s, f) ==
    (IF KindOf(f) = "method" THEN {Passed(s, parent[f.id], "parent")} ELSE {})
        \cup {Passed(s, s.vals[f.id][k], "arg") :
                 k \in {k \in DOMAIN defs[f.id].deps :
                           defs[f.id].deps[k].via = "arg" /\ s.vals[f.id][k] # 0}}

\* fnValue.Call(in) and what follows it in wireFunctionBean
callFunction(s, f) ==
    IF s.err # NoErr THEN s
    ELSE LET s2 == [s EXCEPT !.provCnt[f.id] = @ + 1,
                             !.called[f.id] = Append(@, PassedBeans(s, f)),
                             !.trace = Append(@, Event("provider", f))]
         IN IF defs[f.id].ret = "err" THEN Panic(s2, "ConstructorError", <<f.id>>)
            ELSE IF defs[f.id].ret = "nil" THEN Panic(s2, "NilBean", <<f.id>>)
            ELSE wireBeanDefinition(s2, DelegateFrame(f.id))

\* The beans of ctx.beanMap the dependsOn selectors of f select, each with the status it
\* is in and whether it is on the Wiring Stack
DependsOnBeans(s, f) ==
    {[on |-> c, status |-> s.status[c],
      wiring |-> \E i \in DOMAIN s.wiringStack : s.wiringStack[i] = BeanFrame(c)] :
        c \in {c \in s.beanMap : \E k \in DOMAIN getDependsOn(f) :
                                     SelectorMatches(getDependsOn(f)[k], defs[c])}}

\* The provider dispatch of wireBeanDefinition: "switch bean := bd.springBean().(type)"
wireProvider(s, f) ==
    IF s.err # NoErr THEN s
    ELSE IF KindOf(f) = "object"
        THEN LET s1 == IF f.role = "bean"
                           THEN [s EXCEPT !.provCnt[f.id] = @ + 1,
                                          !.dispatched[f.id] = Append(@, DependsOnBeans(s, f)),
                                          !.trace = Append(@, Event("provider", f))]
                           ELSE s
             IN IF f.role = "bean" /\ defs[f.id].type \in SliceTypes
                    THEN wireSliceBean(s1, f, 1)
                    ELSE wireObjectBean(s1, f, 1)
    ELSE wireFunctionBean([s EXCEPT !.dispatched[f.id] = Append(@, DependsOnBeans(s, f))], f)

\* A wiring that ends without setting the status of the definition
wireFinishUnset(s, f) == IF s.err # NoErr THEN s ELSE popBack(s)

\* The init callback, popBack and setStatus(Wired) that end wireBeanDefinition
wireFinish(s, f) ==
    IF s.err # NoErr THEN s
    ELSE LET s1 == IF getInit(f)
                       THEN [s EXCEPT !.initCnt[f.id] = @ + 1,
                                      !.trace = Append(@, Event("init", f))]
                       ELSE s
         IN setStatus(popBack(s1), f, "Wired")

\* A wiring that pushes the definition before it looks at its status
wireBeanDefinitionPushFirst(s, f) ==
    IF s.err # NoErr THEN s
    ELSE LET s1 == pushBack(s, f)
         IN IF getStatus(s, f) = "Deleted" THEN Panic(s1, "InvalidState", <<f.id>>)
            ELSE IF getStatus(s, f) = "Wired" THEN s1
            ELSE IF getStatus(s, f) = "Wiring"
                THEN (IF CircleTolerated(KindOf(f)) THEN s1
                      ELSE Panic(s1, "CircularDependency", <<f.id>>))
            ELSE wireFinish(
                     wireProvider(
                         wireParent(wireDependsOn(setStatus(s1, f, "Wiring"), f, 1), f), f), f)

wireBeanDefinition(s, f) ==
    IF s.err # NoErr THEN s
    ELSE IF getStatus(s, f) = "Deleted" THEN Panic(s, "InvalidState", <<f.id>>)
    ELSE IF getStatus(s, f) = "Wired" THEN s
    ELSE LET s1 == pushBack(s, f)
         IN IF getStatus(s, f) = "Wiring"
                THEN (IF CircleTolerated(KindOf(f)) THEN s1
                      ELSE Panic(s1, "CircularDependency", <<f.id>>))
            ELSE wireFinish(
                     wireProvider(
                         wireParent(wireDependsOn(setStatus(s1, f, "Wiring"), f, 1), f), f), f)

(***************************************************************************)
(* collectBeans                                                             *)
(***************************************************************************)
\* An element joins ev once it has been wired
collect(s, e) ==
    IF s.err # NoErr THEN s
    ELSE [s EXCEPT !.collected = Append(@, e)]

\* The inner loop of collectBeans over the elements of slice bean d, from the i-th on
RECURSIVE collectElements(_, _, _)
collectElements(s, d, i) ==
    IF s.err # NoErr \/ i > defs[d].elems THEN s
    ELSE collectElements(collect(wireBeanDefinition(s, ElementFrame(d)), <<d, i>>), d, i + 1)

\* The first loop of collectBeans: the beans cached under the slice type
RECURSIVE collectSlices(_, _, _)
collectSlices(s, m, k) ==
    IF s.err # NoErr \/ k > Len(m) THEN s
    ELSE collectSlices(collectElements(s, m[k], 1), m, k + 1)

\* The second loop of collectBeans: the beans cached under the element type
RECURSIVE collectSingles(_, _, _)
collectSingles(s, m, k) ==
    IF s.err # NoErr \/ k > Len(m) THEN s
    ELSE collectSingles(collect(wireBeanDefinition(s, BeanFrame(m[k])), <<m[k], 0>>), m, k + 1)

\* The end of collectBeans: a non-empty ev is written to the slot by v.Set(ev)
collected(s) ==
    IF s.err # NoErr THEN s
    ELSE IF Len(s.collected) > 0 THEN [s EXCEPT !.set = TRUE, !.ok = TRUE]
    ELSE [s EXCEPT !.ok = FALSE]

\* A collection that looks up the beans cached under the element type first
collectBeansSinglesFirst(s, t) ==
    collected(collectSlices(collectSingles([s EXCEPT !.collected = <<>>],
                                           getCacheItem(s, ElemType(t)), 1),
                            getCacheItem(s, t), 1))

\* collectBeans(v): s.collected is ev, s.set tells that ev was written to the slot v,
\* s.ok is the value returned
collectBeans(s, t) ==
    collected(collectSingles(collectSlices([s EXCEPT !.collected = <<>>], getCacheItem(s, t), 1),
                             getCacheItem(s, ElemType(t)), 1))

(***************************************************************************)
(* The context.                                                             *)
(***************************************************************************)
\* The selector and target type a lookup was called with
NoInput == [type |-> "", typeName |-> "", beanName |-> "", nullable |-> FALSE]
Input(t, beanId) ==
    [type |-> t, typeName |-> beanId.typeName, beanName |-> beanId.beanName,
     nullable |-> beanId.nullable]

\* Bound: number of threads that call the post-wiring API concurrently.
MaxSessions == 2

\* A thread that is in no call
NoSession ==
    [op |-> "none", pc |-> "idle", input |-> NoInput, queue |-> <<>>, wired |-> <<>>,
     stack |-> <<>>, err |-> NoErr, ok |-> FALSE, found |-> 0, target |-> 0, collected |-> <<>>]

NoCall == [op |-> "none", err |-> NoErr, errBeans |-> <<>>, ok |-> FALSE, found |-> 0,
           set |-> FALSE, collected |-> <<>>, key |-> <<"", "">>, input |-> NoInput]

Init ==
    /\ defs = <<>>
    /\ status = <<>>
    /\ hist = <<>>
    /\ dispatched = <<>>
    /\ called = <<>>
    /\ parent = <<>>
    /\ beanMap = {}
    /\ methodBeans = <<>>
    /\ autoWired = FALSE
    /\ beanCache = <<>>
    /\ wiringStack = <<>>
    /\ vals = <<>>
    /\ provCnt = <<>>
    /\ initCnt = <<>>
    /\ wiredCnt = <<>>
    /\ target = 0
    /\ phase = "idle"
    /\ todo = {}
    /\ invoked = FALSE
    /\ eventNotify = FALSE
    /\ Sort = FALSE
    /\ cancelled = FALSE
    /\ visited = <<>>
    /\ sessions = [p \in 1..MaxSessions |-> NoSession]
    /\ trace = <<>>
    /\ last = NoCall

\* The session an API call works on: stack is the Wiring Stack of its assembly.
Session(stack, tr, ord, ext) ==
    [status |-> status, hist |-> hist, dispatched |-> dispatched, called |-> called,
     beanMap |-> beanMap,
     beanCache |-> beanCache, wiringStack |-> stack,
     vals |-> vals, provCnt |-> provCnt, initCnt |-> initCnt, wiredCnt |-> wiredCnt,
     target |-> 0, err |-> NoErr, errBeans |-> <<>>, ok |-> FALSE, found |-> 0,
     result |-> <<>>, collected |-> <<>>, set |-> FALSE, trace |-> tr, ord |-> ord, ext |-> ext]

NoExt == [deps |-> <<>>]

\* What a call leaves behind, panic or not: its writes are not rolled back.
Commit(s) ==
    /\ status' = s.status
    /\ hist' = s.hist
    /\ dispatched' = s.dispatched
    /\ called' = s.called
    /\ beanMap' = s.beanMap
    /\ beanCache' = s.beanCache
    /\ wiringStack' = s.wiringStack
    /\ vals' = s.vals
    /\ provCnt' = s.provCnt
    /\ initCnt' = s.initCnt
    /\ wiredCnt' = s.wiredCnt
    /\ target' = s.target
    /\ trace' = s.trace

Outcome(op, s) ==
    [op |-> op, err |-> s.err, errBeans |-> s.errBeans, ok |-> s.err = NoErr /\ s.ok,
     found |-> IF s.err = NoErr THEN s.found ELSE 0,
     set |-> s.set, collected |-> IF s.set THEN s.collected ELSE <<>>,
     key |-> <<"", "">>, input |-> NoInput]

Failed(op, e) == [NoCall EXCEPT !.op = op, !.err = e]

\* The orders a range over a map holding the definitions of S can take
Orders(S) == {o \in [1..Cardinality(S) -> S] : \A i, j \in 1..Cardinality(S) : i # j => o[i] # o[j]}

\* The orders the ranges of the finder may take during one call.  The order of a range
\* decides which beans resolveBean reaches before a panic and in which order they enter
\* the Bean Cache; when no definition is left in status Default resolveBean does nothing,
\* and before autoWired is set no call reaches the finder: one order stands for all.
FinderOrders ==
    IF autoWired /\ \E b \in beanMap : status[b] = "Default" THEN Orders(beanMap)
    ELSE {CHOOSE o \in Orders(beanMap) : \A i, j \in DOMAIN o : i < j => o[i] < o[j]}

\* checkRegistration: the registration is frozen
checkRegistration == autoWired

\* A registration that never finds the key in ctx.beanMap
DuplicateKeyIgnored(map, d) == FALSE

\* registerBeanDefinition finds the key already present in ctx.beanMap
DuplicateKey(map, d) == \E x \in map : KeyOf(defs[x]) = KeyOf(d)

\* The outcome of a registration call that returned the new definition
Registered(op, d) ==
    [NoCall EXCEPT !.op = op, !.ok = TRUE, !.found = Len(defs) + 1, !.key = KeyOf(d)]

\* A new BeanDefinition enters defs with status Default
NewDefinition(d) ==
    /\ defs' = Append(defs, d)
    /\ status' = Append(status, "Default")
    /\ hist' = Append(hist, <<"Default">>)
    /\ dispatched' = Append(dispatched, <<>>)
    /\ called' = Append(called, <<>>)
    /\ parent' = Append(parent, 0)
    /\ vals' = Append(vals, [k \in 1..Len(d.deps) |-> 0])
    /\ provCnt' = Append(provCnt, 0)
    /\ initCnt' = Append(initCnt, 0)
    /\ wiredCnt' = Append(wiredCnt, 0)

\* RegisterNameBean / RegisterNameBeanFn: ToBeanDefinition or FnToBeanDefinition,
\* then registerBeanDefinition.  op is the API entered.
Register(op, name, bean) ==
    LET d == [bean EXCEPT !.name = name]
    IN /\ phase = "idle"
       /\ IF checkRegistration
              THEN /\ last' = Failed(op, "RegistrationFrozen")
                   /\ UNCHANGED <<defs, status, hist, dispatched, called, parent, beanMap, vals, provCnt, initCnt, wiredCnt>>
          ELSE IF DuplicateKey(beanMap, d)
              THEN /\ last' = [Failed(op, "DuplicateBean") EXCEPT !.key = KeyOf(d)]
                   /\ UNCHANGED <<defs, status, hist, dispatched, called, parent, beanMap, vals, provCnt, initCnt, wiredCnt>>
          ELSE /\ Len(defs) < MaxBeans
               /\ NewDefinition(d)
               /\ beanMap' = beanMap \cup {Len(defs) + 1}
               /\ last' = Registered(op, d)
       /\ UNCHANGED <<methodBeans, autoWired, beanCache, wiringStack, target, phase, todo,
                      invoked, eventNotify, Sort, cancelled, sessions, visited, trace>>

RegisterNameBean(name, bean) == bean.kind = "object" /\ Register("RegisterNameBean", name, bean)

RegisterBean(bean) == bean.kind = "object" /\ Register("RegisterBean", "", bean)

RegisterNameBeanFn(name, fn) == fn.kind = "constructor" /\ Register("RegisterNameBeanFn", name, fn)

RegisterBeanFn(fn) == fn.kind = "constructor" /\ Register("RegisterBeanFn", "", fn)

\* RegisterNameMethodBean: the definition only joins ctx.methodBeans
RegisterMethod(op, name, m) ==
    LET d == [m EXCEPT !.name = name]
    IN /\ phase = "idle"
       /\ m.kind = "method"
       /\ IF checkRegistration
              THEN /\ last' = Failed(op, "RegistrationFrozen")
                   /\ UNCHANGED <<defs, status, hist, dispatched, called, parent, methodBeans, vals, provCnt, initCnt, wiredCnt>>
          ELSE IF m.selector.kind = "empty"
              THEN /\ last' = [Failed(op, "SelectorEmpty") EXCEPT !.key = KeyOf(d)]
                   /\ UNCHANGED <<defs, status, hist, dispatched, called, parent, methodBeans, vals, provCnt, initCnt, wiredCnt>>
          ELSE /\ Len(defs) < MaxBeans
               /\ m.selector.kind = "bd" => m.selector.id \in Ids
               /\ NewDefinition(d)
               /\ methodBeans' = Append(methodBeans, Len(defs) + 1)
               /\ last' = Registered(op, d)
       /\ UNCHANGED <<beanMap, autoWired, beanCache, wiringStack, target, phase, todo,
                      invoked, eventNotify, Sort, cancelled, sessions, visited, trace>>

RegisterNameMethodBean(name, m) == RegisterMethod("RegisterNameMethodBean", name, m)

RegisterMethodBean(m) == RegisterMethod("RegisterMethodBean", "", m)

(***************************************************************************)
(* AutoWireBeans.  The entry runs the method-bean loop and sets autoWired;  *)
(* each iteration of the resolve loop and of the wiring loop is one step.   *)
(***************************************************************************)
\* The parents the selector of a pending method bean selects
ParentsOf(map, sel) ==
    CASE sel.kind = "bd" -> {sel.id}
      [] sel.kind = "string" -> {b \in map : Match(defs[b], sel.typeName, sel.beanName)}
      [] sel.kind = "type" -> {b \in map : defs[b].type = sel.type}
      [] OTHER -> {}

\* One iteration of the loop over ctx.methodBeans: the fakeMethodBean of bd becomes a
\* methodBean on its parent, then bd is registered.
registerMethodBean(m, bd) ==
    LET result == ParentsOf(m.beanMap, defs[bd].selector)
    IN IF m.parent[bd] # 0 THEN [m EXCEPT !.err = "TypeAssertion"]
       ELSE IF result = {} THEN [m EXCEPT !.err = "ParentNotFound"]
       ELSE IF Cardinality(result) > 1 THEN [m EXCEPT !.err = "ParentAmbiguous"]
       ELSE IF DuplicateKey(m.beanMap, defs[bd])
           THEN [m EXCEPT !.parent[bd] = CHOOSE x \in result : TRUE, !.err = "DuplicateBean"]
       ELSE [m EXCEPT !.parent[bd] = CHOOSE x \in result : TRUE, !.beanMap = @ \cup {bd}]

\* The loop over ctx.methodBeans, from the k-th on; m carries parent, beanMap and the panic.
RECURSIVE registerMethodBeans(_, _)
registerMethodBeans(m, k) ==
    IF m.err # NoErr \/ k > Len(methodBeans) THEN m
    ELSE registerMethodBeans(registerMethodBean(m, methodBeans[k]), k + 1)

\* AutoWireBeans after the loop over ctx.methodBeans: autoWired is set, resolving starts
MethodBeansRegistered(m) ==
    /\ parent' = m.parent
    /\ beanMap' = m.beanMap
    /\ IF m.err # NoErr
           THEN /\ last' = Failed("AutoWireBeans", m.err)
                /\ UNCHANGED <<autoWired, phase, todo, visited, trace>>
           ELSE /\ autoWired' = TRUE
                /\ trace' = Notify(<<>>, "ResolveStart")
                /\ visited' = <<>>
                /\ phase' = "resolve"
                /\ todo' = m.beanMap
                /\ last' = [NoCall EXCEPT !.op = "AutoWireBeans"]

\* ctx.autoWired guards the entry of AutoWireBeans
AlreadyWired == autoWired

\* AutoWireBeans up to the start of the resolve loop
AutoWireBeans ==
    /\ phase = "idle"
    /\ invoked' = TRUE
    /\ IF AlreadyWired
           THEN /\ last' = Failed("AutoWireBeans", "AlreadyWired")
                /\ UNCHANGED <<parent, beanMap, autoWired, phase, todo, visited, trace>>
       ELSE MethodBeansRegistered(
                registerMethodBeans([parent |-> parent, beanMap |-> beanMap, err |-> NoErr], 1))
    /\ UNCHANGED <<defs, status, hist, dispatched, called, methodBeans, beanCache, wiringStack, vals, provCnt, initCnt,
                   wiredCnt, target, eventNotify, Sort, cancelled, sessions>>

\* What one iteration of a loop of AutoWireBeans leaves behind: a panic ends the call
LoopStep(s, b) ==
    /\ Commit(s)
    /\ IF s.err # NoErr
           THEN /\ phase' = "idle"
                /\ todo' = {}
                /\ last' = Outcome("AutoWireBeans", s)
           ELSE /\ todo' = todo \ {b}
                /\ UNCHANGED <<phase, last>>
    /\ visited' = IF phase = "wire" THEN Append(visited, b) ELSE visited
    /\ UNCHANGED <<defs, parent, methodBeans, autoWired, invoked, eventNotify, Sort, cancelled, sessions>>

\* One iteration of "for _, bd := range ctx.beanMap { ctx.resolveBean(bd) }"
ResolveStep(b) ==
    /\ phase = "resolve"
    /\ b \in todo \cap beanMap
    /\ LoopStep(resolveBean(Session(wiringStack, trace, <<>>, NoExt), b), b)

\* The resolve loop is over: a new assembly, with an empty Wiring Stack, starts wiring
ResolveEnd ==
    /\ phase = "resolve"
    /\ todo \cap beanMap = {}
    /\ phase' = "wire"
    /\ todo' = beanMap
    /\ wiringStack' = <<>>
    /\ trace' = Notify(Notify(trace, "ResolveEnd"), "AutoWireStart")
    /\ UNCHANGED <<defs, status, hist, dispatched, called, parent, beanMap, methodBeans, autoWired, beanCache, vals,
                   provCnt, initCnt, wiredCnt, target, invoked, eventNotify, Sort, cancelled, sessions,
                   visited, last>>

\* The characters of the type names and bean names in use
Chars(str) ==
    CASE str = "A" -> <<65>>
      [] str = "B" -> <<66>>
      [] str = "C" -> <<67>>
      [] str = "I" -> <<73>>
      [] str = "[]A" -> <<91, 93, 65>>
      [] str = "x" -> <<120>>
      [] str = "y" -> <<121>>
      [] str = ":" -> <<58>>

\* bd.BeanId(): the type name and the bean name, joined by ":"
BeanIdOf(d) == Chars(d.type) \o Chars(":") \o Chars(NameOf(d))

\* The order of sort.Strings: a < b, byte by byte
RECURSIVE Less(_, _)
Less(a, b) ==
    IF b = <<>> THEN FALSE
    ELSE IF a = <<>> THEN TRUE
    ELSE IF Head(a) # Head(b) THEN Head(a) < Head(b)
    ELSE Less(Tail(a), Tail(b))

\* A wiring loop that takes the beans from the last BeanId down
NextBeanIdLast(S, b) == \A c \in S : ~Less(BeanIdOf(defs[b]), BeanIdOf(defs[c]))

\* The bean the loop over the sorted beanIds comes to next: the one of the least BeanId
\* among those of S, the beans it has not come to yet
NextBeanId(S, b) == \A c \in S : ~Less(BeanIdOf(defs[c]), BeanIdOf(defs[b]))

\* One iteration of the wiring loop: "for _, beanId := range beanIds" over the sorted
\* BeanIds if ctx.Sort, "for _, bd := range ctx.beanMap" otherwise
WireStep(b, ord) ==
    /\ phase = "wire"
    /\ b \in todo \cap beanMap
    /\ Sort => NextBeanId(todo \cap beanMap, b)
    /\ LoopStep(wireBeanDefinition(Session(wiringStack, trace, ord, NoExt), BeanFrame(b)), b)

\* The wiring loop is over: AutoWireBeans returns
WireEnd ==
    /\ phase = "wire"
    /\ todo \cap beanMap = {}
    /\ phase' = "idle"
    /\ todo' = {}
    /\ last' = [NoCall EXCEPT !.op = "AutoWireBeans", !.ok = TRUE]
    /\ trace' = Notify(trace, "AutoWireEnd")
    /\ UNCHANGED <<defs, status, hist, dispatched, called, parent, beanMap, methodBeans, autoWired, beanCache,
                   wiringStack, vals, provCnt, initCnt, wiredCnt, target, invoked, eventNotify,
                   Sort, cancelled, sessions, visited>>

(***************************************************************************)
(* The post-wiring API.                                                     *)
(***************************************************************************)
\* What an API call that ran on session s leaves behind
Call(op, input, s) ==
    /\ Commit(s)
    /\ last' = [Outcome(op, s) EXCEPT !.input = input]
    /\ UNCHANGED <<defs, parent, methodBeans, autoWired, phase, todo, invoked, eventNotify, Sort,
                   cancelled, sessions, visited>>

\* A call stopped by checkAutoWired
NotYetWired(op, input) ==
    /\ last' = [Failed(op, "NotYetWired") EXCEPT !.input = input]
    /\ target' = 0
    /\ UNCHANGED <<defs, status, hist, dispatched, called, parent, beanMap, methodBeans, autoWired, beanCache, wiringStack,
                   vals, provCnt, initCnt, wiredCnt, phase, todo, invoked, eventNotify, Sort,
                   cancelled, sessions, visited, trace>>

\* A GetBeanByName that passes the beanId on as it was given
EnsureNullableNot(beanId) == beanId

\* GetBeanByName appends the nullable mark "?" to a beanId that lacks it
EnsureNullable(beanId) == [beanId EXCEPT !.nullable = TRUE]

LookupByName(op, beanId, t, ord) ==
    /\ phase = "idle"
    /\ IF ~checkAutoWired THEN NotYetWired(op, Input(t, beanId))
       ELSE Call(op, Input(t, beanId),
                 getBeanValue(Session(<<>>, <<>>, ord, NoExt), t, EnsureNullable(beanId),
                              0, <<0, 0>>))

GetBeanByName(beanId, t, ord) == LookupByName("GetBeanByName", beanId, t, ord)

\* GetBean(i) is GetBeanByName("?", i)
AnyBean == [typeName |-> "", beanName |-> "", nullable |-> TRUE]

GetBean(t, ord) == LookupByName("GetBean", AnyBean, t, ord)

FindBeanCall(op, sel, ord) ==
    /\ phase = "idle"
    /\ IF ~checkAutoWired THEN NotYetWired(op, [NoInput EXCEPT !.type = sel.type])
       ELSE Call(op, [NoInput EXCEPT !.type = sel.type],
                 FindBean(Session(wiringStack, <<>>, ord, NoExt), sel))

FindBeanBySelector(sel, ord) == FindBeanCall("FindBean", sel, ord)

FindBeanByName(beanId, ord) ==
    FindBeanCall("FindBeanByName",
                 [kind |-> "string", typeName |-> beanId.typeName, beanName |-> beanId.beanName,
                  type |-> ""], ord)

CollectBeans(t, ord) ==
    /\ phase = "idle"
    /\ t \in SliceTypes
    /\ IF ~checkAutoWired THEN NotYetWired("CollectBeans", [NoInput EXCEPT !.type = t])
       ELSE Call("CollectBeans", [NoInput EXCEPT !.type = t],
                 collectBeans(Session(<<>>, <<>>, ord, NoExt), t))

WireBean(ext, ord) ==
    /\ phase = "idle"
    /\ IF ~checkAutoWired THEN NotYetWired("WireBean", Input(ext.deps[1].type, ext.deps[1].sel))
       ELSE Call("WireBean", Input(ext.deps[1].type, ext.deps[1].sel),
                 wireBeanDefinition(Session(<<>>, <<>>, ord, ext), ExternalFrame))

\* SetEventNotify
SetEventNotify(notify) ==
    /\ phase = "idle"
    /\ eventNotify' = notify
    /\ last' = [NoCall EXCEPT !.op = "SetEventNotify", !.ok = TRUE]
    /\ UNCHANGED <<defs, status, hist, dispatched, called, parent, beanMap, methodBeans, autoWired, beanCache, wiringStack,
                   vals, provCnt, initCnt, wiredCnt, target, phase, todo, invoked, Sort,
                   cancelled, sessions, visited, trace>>

\* The caller assigns the exported field ctx.Sort
SetSort(flag) ==
    /\ phase = "idle"
    /\ Sort' = flag
    /\ last' = [NoCall EXCEPT !.op = "SetSort", !.ok = TRUE]
    /\ UNCHANGED <<defs, status, hist, dispatched, called, parent, beanMap, methodBeans, autoWired, beanCache, wiringStack,
                   vals, provCnt, initCnt, wiredCnt, target, phase, todo, invoked, eventNotify,
                   cancelled, sessions, visited, trace>>

\* The loop of Close over ctx.beanMap, from position k of the order ord of the range
RECURSIVE destroyBeans(_, _, _)
destroyBeans(tr, ord, k) ==
    IF k > Len(ord) THEN tr
    ELSE destroyBeans(IF defs[ord[k]].destroy
                          THEN Append(tr, Event("destroy", BeanFrame(ord[k])))
                          ELSE tr,
                      ord, k + 1)

\* A Close that does not call ctx.cancel()
cancelSkipped(tr) == tr

\* ctx.cancel()
cancel(tr) == Append(tr, [ev |-> "cancel", id |-> 0, role |-> "context"])

\* Close
Close(ord) ==
    /\ phase = "idle"
    /\ trace' = Notify(cancel(destroyBeans(Notify(<<>>, "CloseStart"), ord, 1)), "CloseEnd")
    /\ cancelled' = (cancelled \/ \E i \in DOMAIN trace' : trace'[i].ev = "cancel")
    /\ last' = [NoCall EXCEPT !.op = "Close", !.ok = TRUE]
    /\ UNCHANGED <<defs, status, hist, dispatched, called, parent, beanMap, methodBeans, autoWired, beanCache, wiringStack,
                   vals, provCnt, initCnt, wiredCnt, target, phase, todo, invoked, eventNotify,
                   Sort, visited, sessions>>

(***************************************************************************)
(* The inputs of the API calls.                                             *)
(***************************************************************************)
NoSelector == [kind |-> "none", id |-> 0, typeName |-> "", beanName |-> "", type |-> ""]
ByType(t) == [NoSelector EXCEPT !.kind = "type", !.type = t]
ByBeanId(typeName, beanName) ==
    [NoSelector EXCEPT !.kind = "string", !.typeName = typeName, !.beanName = beanName]
ByDefinition(b) == [NoSelector EXCEPT !.kind = "bd", !.id = b]
EmptySelector == [NoSelector EXCEPT !.kind = "empty"]

BeanId(typeName, beanName, nullable) ==
    [typeName |-> typeName, beanName |-> beanName, nullable |-> nullable]

\* A struct field tagged autowire:"beanName" (nullable: autowire:"beanName?") of type t
Field(t, beanName, nullable) == [via |-> "field", type |-> t, sel |-> BeanId("", beanName, nullable)]

\* An argument of type t of a constructor or of a method
Arg(t) == [via |-> "arg", type |-> t, sel |-> BeanId("", "", FALSE)]

\* A bean of the given provider kind and type, with every option at its default
Bean(kind, t) ==
    [kind |-> kind, type |-> t, name |-> "", primary |-> FALSE, cond |-> TRUE, exports |-> <<>>,
     dependsOn |-> <<>>, deps |-> <<>>, init |-> FALSE, destroy |-> FALSE, ret |-> "ok",
     elems |-> 0, selector |-> NoSelector]

Object(t, deps) == [Bean("object", t) EXCEPT !.deps = deps, !.init = TRUE]
Constructor(t, deps) == [Bean("constructor", t) EXCEPT !.deps = deps]
Method(t, sel) == [Bean("method", t) EXCEPT !.selector = sel]

Names == {"x"}

\* The beans, lookups and external beans the calls of Spec are given
Beans ==
    { Object("A", <<>>),
      [Object("B", <<>>) EXCEPT !.exports = <<"I">>],
      [Constructor("B", <<Arg("A")>>) EXCEPT !.ret = "err"],
      Method("B", ByType("A")),
      Method("A", EmptySelector) }

LookupTypes == {"A"}
LookupIds == {BeanId("", "x", FALSE)}
FindSelectors == {ByType("A")}
Externals == {[deps |-> <<Field("A", "", FALSE)>>]}

Next ==
    \/ \E bean \in Beans : RegisterBean(bean)
    \/ \E name \in Names, bean \in Beans : RegisterNameBean(name, bean)
    \/ \E fn \in Beans : RegisterBeanFn(fn)
    \/ \E name \in Names, fn \in Beans : RegisterNameBeanFn(name, fn)
    \/ \E m \in Beans : RegisterMethodBean(m)
    \/ \E name \in Names, m \in Beans : RegisterNameMethodBean(name, m)
    \/ AutoWireBeans
    \/ \E b \in Ids : ResolveStep(b)
    \/ ResolveEnd
    \/ \E b \in Ids, ord \in FinderOrders : WireStep(b, ord)
    \/ WireEnd
    \/ \E t \in LookupTypes, ord \in FinderOrders : GetBean(t, ord)
    \/ \E beanId \in LookupIds, t \in LookupTypes, ord \in FinderOrders : GetBeanByName(beanId, t, ord)
    \/ \E sel \in FindSelectors, ord \in FinderOrders : FindBeanBySelector(sel, ord)
    \/ \E beanId \in LookupIds, ord \in FinderOrders : FindBeanByName(beanId, ord)
    \/ \E t \in SliceTypes, ord \in FinderOrders : CollectBeans(t, ord)
    \/ \E ext \in Externals, ord \in FinderOrders : WireBean(ext, ord)

Spec == Init /\ [][Next]_vars

\* Bound: number of BeanDefinitions of a context under SpecProtocol.
MaxProtocolBeans == 2

\* A registration call on a context that stays within MaxProtocolBeans definitions
Small(Registration) == Registration /\ Len(defs') <= MaxProtocolBeans

\* The calls of Spec on a context of at most MaxProtocolBeans definitions
NextProtocol ==
    \/ \E bean \in Beans : Small(RegisterBean(bean))
    \/ \E name \in Names, bean \in Beans : Small(RegisterNameBean(name, bean))
    \/ \E fn \in Beans : Small(RegisterBeanFn(fn))
    \/ \E name \in Names, fn \in Beans : Small(RegisterNameBeanFn(name, fn))
    \/ \E m \in Beans : Small(RegisterMethodBean(m))
    \/ \E name \in Names, m \in Beans : Small(RegisterNameMethodBean(name, m))
    \/ AutoWireBeans
    \/ \E b \in Ids : ResolveStep(b)
    \/ ResolveEnd
    \/ \E b \in Ids, ord \in FinderOrders : WireStep(b, ord)
    \/ WireEnd
    \/ \E t \in LookupTypes, ord \in FinderOrders : GetBean(t, ord)
    \/ \E beanId \in LookupIds, t \in LookupTypes, ord \in FinderOrders : GetBeanByName(beanId, t, ord)
    \/ \E sel \in FindSelectors, ord \in FinderOrders : FindBeanBySelector(sel, ord)
    \/ \E beanId \in LookupIds, ord \in FinderOrders : FindBeanByName(beanId, ord)
    \/ \E t \in SliceTypes, ord \in FinderOrders : CollectBeans(t, ord)
    \/ \E ext \in Externals, ord \in FinderOrders : WireBean(ext, ord)

SpecProtocol == Init /\ [][NextProtocol]_vars

(***************************************************************************)
(* Properties of the registration and call protocol, checked under          *)
(* SpecProtocol.                                                            *)
(***************************************************************************)
RegisterOps == {"RegisterBean", "RegisterNameBean", "RegisterBeanFn", "RegisterNameBeanFn",
                "RegisterMethodBean", "RegisterNameMethodBean"}
MethodOps == {"RegisterMethodBean", "RegisterNameMethodBean"}
LookupOps == {"GetBean", "GetBeanByName", "FindBean", "FindBeanByName", "CollectBeans", "WireBean"}

\* This step is the entry of an AutoWireBeans call
AutoWireEntered == phase = "idle" /\ last'.op = "AutoWireBeans"

\* This step is a registration call, whose (type, name) key is last'.key
RegisterCalled == phase = "idle" /\ last'.op \in RegisterOps

\* This step is a call of the post-wiring API
LookupCalled == phase = "idle" /\ last'.op \in LookupOps

\* ctx.beanMap holds no two definitions with the same beanKey
UniqueKeys == \A x, y \in beanMap : x # y => KeyOf(defs[x]) # KeyOf(defs[y])

\* C4, as claimed: every AutoWireBeans call after the first one fails with the
\* already-wired error and changes no bean status, whatever the first call's outcome.
C4_SecondCallAlreadyWired ==
    [][(invoked /\ AutoWireEntered) => (last'.err = "AlreadyWired" /\ status' = status)]_vars

C9_FrozenOnceInvoked ==
    [][(invoked /\ RegisterCalled)
          => (last'.err = "RegistrationFrozen" /\ beanMap' = beanMap /\ methodBeans' = methodBeans
              /\ defs' = defs)]_vars

\* C10: on a context on which AutoWireBeans has not been invoked, each of GetBean,
\* GetBeanByName, FindBean, FindBeanByName, CollectBeans and WireBean fails with the
\* not-yet-wired error: no target is bound, no bean is found or collected, and nothing of
\* the context changes.
C10_LookupBeforeAutoWire ==
    [][(~invoked /\ LookupCalled)
          => (/\ last'.err = "NotYetWired"
              /\ ~last'.ok /\ last'.found = 0 /\ last'.collected = <<>>
              /\ target' = 0
              /\ UNCHANGED <<defs, status, parent, beanMap, methodBeans, autoWired, beanCache,
                             wiringStack, vals, provCnt, initCnt, wiredCnt>>)]_vars

\* C10: WireBean was refused on a context that holds beans and was never autowired
C10_RefusedBeforeAutoWire ==
    /\ ~invoked
    /\ beanMap # {}
    /\ last.op = "WireBean"
    /\ last.err = "NotYetWired"

(***************************************************************************)
(* The wiring of bean graphs: SpecGraph registers unnamed beans of the      *)
(* types "A", "B", "C" that inject each other and runs AutoWireBeans.       *)
(***************************************************************************)
GraphBeans ==
    { Object("A", <<>>),
      Object("A", <<Field("B", "", FALSE)>>),
      Object("B", <<>>),
      Object("B", <<Field("A", "", FALSE)>>),
      Object("B", <<Field("C", "", FALSE)>>),
      Object("C", <<Field("A", "", FALSE)>>),
      [Object("C", <<>>) EXCEPT !.dependsOn = <<ByType("B")>>],
      [Object("C", <<>>) EXCEPT !.cond = FALSE],
      Constructor("A", <<Arg("B")>>),
      Constructor("B", <<Arg("A")>>),
      [Constructor("C", <<>>) EXCEPT !.ret = "err"],
      Method("C", ByType("A")),
      [Method("B", ByType("A")) EXCEPT !.deps = <<Arg("C")>>] }

NextGraph ==
    \/ \E bean \in GraphBeans : RegisterBean(bean)
    \/ \E fn \in GraphBeans : RegisterBeanFn(fn)
    \/ \E m \in GraphBeans : RegisterMethodBean(m)
    \/ AutoWireBeans
    \/ \E b \in Ids : ResolveStep(b)
    \/ ResolveEnd
    \/ \E b \in Ids, ord \in FinderOrders : WireStep(b, ord)
    \/ WireEnd

SpecGraph == Init /\ [][NextGraph]_vars

\* The beans of ctx.beanMap a selector of type t and names sel can be given, self excluded
Selected(t, sel, self) ==
    {c \in beanMap : /\ c # self
                     /\ AssignableTo(defs[c].type, t)
                     /\ Match(defs[c], sel.typeName, sel.beanName)}

\* The beans bean b asks for: through its fields and arguments, its dependsOn selectors
\* and, for a method bean, its parent
Wanted(b) ==
    UNION ({Selected(defs[b].deps[k].type, defs[b].deps[k].sel,
                     IF defs[b].deps[k].via = "field" THEN b ELSE 0) : k \in DOMAIN defs[b].deps}
           \cup {{c \in beanMap : SelectorMatches(defs[b].dependsOn[k], defs[c])} :
                    k \in DOMAIN defs[b].dependsOn}
           \cup {IF parent[b] # 0 THEN {parent[b]} ELSE {}})

\* The beans of U reached from the beans of S along Wanted, S included
RECURSIVE Closure(_, _)
Closure(S, U) ==
    LET T == S \cup {c \in U : \E b \in S : c \in Wanted(b)}
    IN IF T = S THEN S ELSE Closure(T, U)

\* Bean b lies on a dependency cycle made of beans of U
OnCycleWithin(b, U) == b \in U /\ b \in Closure({c \in U : c \in Wanted(b)}, U)

OnCycle(b) == OnCycleWithin(b, beanMap)

\* Every field, argument and dependsOn selector of a registered bean selects one bean
UniquelyResolved ==
    \A b \in beanMap :
        /\ \A k \in DOMAIN defs[b].deps :
              Cardinality(Selected(defs[b].deps[k].type, defs[b].deps[k].sel,
                                   IF defs[b].deps[k].via = "field" THEN b ELSE 0)) = 1
        /\ \A k \in DOMAIN defs[b].dependsOn :
              Cardinality({c \in beanMap : SelectorMatches(defs[b].dependsOn[k], defs[c])}) = 1

\* No constructor or method of a registered bean returns an error or nil
NoProviderFails == \A b \in beanMap : defs[b].ret = "ok"

\* An AutoWireBeans call that got past the method beans has returned or panicked
PassOver ==
    /\ phase = "idle"
    /\ autoWired
    /\ last.op = "AutoWireBeans"
    /\ last.err # "AlreadyWired"

\* C1: when an AutoWireBeans call that got past the registration of the method beans is
\* over, and the beans of ctx.beanMap form an acyclic graph in which no provider fails and
\* every selector selects exactly one bean, the call returned without error and every
\* bean of ctx.beanMap is Wired, became Wired once, had its provider run once and its init
\* callback (if it has one) run once.
C1_AcyclicGraphWired ==
    (PassOver /\ NoProviderFails /\ UniquelyResolved /\ \A b \in beanMap : ~OnCycle(b))
        => /\ last.err = NoErr
           /\ last.ok
           /\ \A b \in beanMap :
                 /\ status[b] = "Wired"
                 /\ wiredCnt[b] = 1
                 /\ provCnt[b] = 1
                 /\ initCnt[b] = (IF defs[b].init THEN 1 ELSE 0)

\* C1: an acyclic graph of three beans, a method bean and a constructor bean among them,
\* has been wired
C1_ThreeBeansWired ==
    /\ PassOver /\ NoProviderFails /\ UniquelyResolved
    /\ \A b \in beanMap : ~OnCycle(b) /\ status[b] = "Wired"
    /\ Cardinality(beanMap) = 3
    /\ \E b \in beanMap : defs[b].kind = "method"
    /\ \E b \in beanMap : defs[b].kind = "constructor"

\* The position in the trace at which bean b first entered wireBeanDefinition (0: never)
FirstPush(b) ==
    LET at == {i \in DOMAIN trace : trace[i] = Event("push", BeanFrame(b))}
    IN IF at = {} THEN 0 ELSE CHOOSE i \in at : \A j \in at : i <= j

\* Bean f entered wiring before every other bean of some cycle it lies on
FirstOfCycle(f) ==
    /\ FirstPush(f) # 0
    /\ OnCycleWithin(f, {c \in beanMap : FirstPush(c) = 0 \/ FirstPush(c) >= FirstPush(f)})

FunctionBeans == {b \in beanMap : defs[b].kind # "object"}

\* C2, as claimed: when the beans form a cycle that holds a constructor bean or a method
\* bean (no provider failing, every selector selecting one bean), AutoWireBeans fails with
\* the circular-dependency error, whatever the order the beans were iterated in.
C2_MixedCycleAlwaysFails ==
    (PassOver /\ NoProviderFails /\ UniquelyResolved /\ \E f \in FunctionBeans : OnCycle(f))
        => last.err = "CircularDependency"

\* C2, amended: with no provider failing and every selector selecting one bean,
\* AutoWireBeans fails with the circular-dependency error exactly when a constructor bean
\* or a method bean is the bean of one of its cycles that entered wiring first; the bean
\* named by the error is such a bean, left in status Wiring; otherwise (every cycle was
\* entered through an object bean) the call returns without error and all beans are Wired.
C2_CycleEnteredThroughFunctionBean ==
    (PassOver /\ NoProviderFails /\ UniquelyResolved)
        => /\ last.err \in {NoErr, "CircularDependency"}
           /\ last.err = "CircularDependency" <=> \E f \in FunctionBeans : FirstOfCycle(f)
           /\ last.err = "CircularDependency"
                 => /\ Len(last.errBeans) = 1
                    /\ last.errBeans[1] \in FunctionBeans
                    /\ FirstOfCycle(last.errBeans[1])
                    /\ status[last.errBeans[1]] = "Wiring"
           /\ last.err = NoErr => \A b \in beanMap : status[b] = "Wired"

\* C2: a cycle through a constructor bean was entered through an object bean and wired,
\* and the same beans registered in the same order can fail (fail when iterated in another order)
C2_MixedCycleTolerated ==
    /\ PassOver /\ NoProviderFails /\ UniquelyResolved
    /\ last.err = NoErr
    /\ \E f \in FunctionBeans : OnCycle(f) /\ defs[f].kind = "constructor"

\* Every bean on a cycle is an object bean whose only requests are its fields
ObjectCyclesOnly ==
    \A b \in beanMap : OnCycle(b) => (defs[b].kind = "object" /\ defs[b].dependsOn = <<>>)

\* C3: when the cycles of the bean graph are made only of object beans injecting each
\* other through fields (no provider failing, every selector selecting one bean),
\* AutoWireBeans returns without error, every bean of a cycle is Wired, each of its fields
\* holds the one bean its selector selects, and its field injection ran exactly once.
C3_ObjectCycleWired ==
    (PassOver /\ NoProviderFails /\ UniquelyResolved /\ ObjectCyclesOnly)
        => /\ last.err = NoErr
           /\ \A b \in beanMap : OnCycle(b) =>
                 /\ status[b] = "Wired"
                 /\ wiredCnt[b] = 1
                 /\ provCnt[b] = 1
                 /\ Cardinality({i \in DOMAIN trace : trace[i] = Event("provider", BeanFrame(b))}) = 1
                 /\ \A k \in DOMAIN defs[b].deps :
                       Selected(defs[b].deps[k].type, defs[b].deps[k].sel, b) = {vals[b][k]}

\* C3: a cycle of three object beans has been wired
C3_ThreeObjectCycleWired ==
    /\ PassOver /\ NoProviderFails /\ UniquelyResolved /\ ObjectCyclesOnly
    /\ Cardinality(beanMap) = 3
    /\ \A b \in beanMap : OnCycle(b) /\ status[b] = "Wired"

(***************************************************************************)
(* The lookups of getBeanValue: SpecLookup registers beans of type "A"      *)
(* under several names, some flagged primary, one made by a constructor     *)
(* that fails, runs AutoWireBeans and then looks beans up through GetBean,  *)
(* GetBeanByName and the field injection of WireBean.                       *)
(***************************************************************************)
LookupBeans ==
    { Object("A", <<>>),
      [Object("A", <<>>) EXCEPT !.primary = TRUE],
      [Constructor("A", <<>>) EXCEPT !.ret = "err"] }

LookupNames == {"x", "y"}

GetBeanIds == {BeanId("", "x", FALSE), BeanId("", "x", TRUE)}

LookupExternals ==
    { [deps |-> <<Field("A", "", FALSE)>>],
      [deps |-> <<Field("A", "x", FALSE)>>],
      [deps |-> <<Field("A", "x", TRUE)>>] }

NextLookup ==
    \/ \E bean \in LookupBeans : RegisterBean(bean)
    \/ \E name \in LookupNames, bean \in LookupBeans : RegisterNameBean(name, bean)
    \/ \E fn \in LookupBeans : RegisterBeanFn(fn)
    \/ AutoWireBeans
    \/ \E b \in Ids : ResolveStep(b)
    \/ ResolveEnd
    \/ \E b \in Ids, ord \in FinderOrders : WireStep(b, ord)
    \/ WireEnd
    \/ \E ord \in FinderOrders : GetBean("A", ord)
    \/ \E beanId \in GetBeanIds, ord \in FinderOrders : GetBeanByName(beanId, "A", ord)
    \/ \E ext \in LookupExternals, ord \in FinderOrders : WireBean(ext, ord)

SpecLookup == Init /\ [][NextLookup]_vars

\* The beans the Bean Cache holds under type t
Cached(t) == IF t \in DOMAIN beanCache THEN {beanCache[t][i] : i \in DOMAIN beanCache[t]} ELSE {}

\* The filtered candidates of a lookup called with the input in
Matching(in) ==
    {b \in Cached(in.type) : /\ AssignableTo(defs[b].type, in.type)
                             /\ Match(defs[b], in.typeName, in.beanName)}

Primaries(in) == {b \in Matching(in) : defs[b].primary}

\* This step is a GetBean, GetBeanByName or WireBean call that reached getBeanValue
GetValueCalled == phase = "idle" /\ autoWired /\ last'.op \in {"GetBean", "GetBeanByName", "WireBean"}

\* C5: a lookup whose filtered candidates hold exactly one primary bean raises nothing,
\* wires that bean and assigns it to the target, however many other candidates there are
\* and wherever the primary bean stands in the Bean Cache; a lookup whose candidates hold
\* two or more primary beans fails with the ambiguous-primary error naming them, writes no
\* target and wires nothing.
C5_PrimaryChosen ==
    [][GetValueCalled =>
          /\ Cardinality(Primaries(last'.input)) = 1
                => /\ last'.err = NoErr
                   /\ {target'} = Primaries(last'.input)
                   /\ status'[target'] = "Wired"
                   /\ last'.op # "WireBean" => last'.ok
          /\ Cardinality(Primaries(last'.input)) > 1
                => /\ last'.err = "AmbiguousPrimary"
                   /\ {last'.errBeans[i] : i \in DOMAIN last'.errBeans} = Primaries(last'.input)
                   /\ target' = 0
                   /\ status' = status]_vars

\* C5: GetBean chose the primary bean among three candidates, the primary bean not being
\* the first in the Bean Cache, after a pass that failed before it wired that bean
C5_PrimaryAmongThree ==
    /\ autoWired /\ phase = "idle"
    /\ last.op = "GetBean" /\ last.ok
    /\ Cardinality(Matching(last.input)) = 3
    /\ {target} = Primaries(last.input)
    /\ beanCache["A"][1] # target
    /\ trace = <<Event("push", BeanFrame(target)), Event("provider", BeanFrame(target)),
                 Event("init", BeanFrame(target)), Event("pop", BeanFrame(target))>>

\* C6: a lookup whose filtered candidates are more than one, none of them primary, fails
\* with the ambiguous-bean error naming every candidate, wires no bean and writes no
\* target, whether or not its selector carries the nullable mark.
C6_AmbiguousBean ==
    [][(GetValueCalled /\ Cardinality(Matching(last'.input)) > 1 /\ Primaries(last'.input) = {})
          => /\ last'.err = "AmbiguousBean"
             /\ {last'.errBeans[i] : i \in DOMAIN last'.errBeans} = Matching(last'.input)
             /\ Len(last'.errBeans) = Cardinality(Matching(last'.input))
             /\ target' = 0
             /\ UNCHANGED <<status, wiredCnt, provCnt, initCnt, vals>>]_vars

\* C6: GetBean failed with the ambiguous-bean error on three candidates, two of them
\* still Resolved after a pass that failed
C6_AmbiguousUnwired ==
    /\ autoWired /\ phase = "idle"
    /\ last.op = "GetBean" /\ last.err = "AmbiguousBean"
    /\ Len(last.errBeans) = 3
    /\ Cardinality({i \in DOMAIN last.errBeans : status[last.errBeans[i]] = "Resolved"}) = 2

\* C7, as claimed: a lookup (field injection, GetBean, GetBeanByName) whose selector
\* matches no bean returns false without raising and leaves the target unchanged if the
\* selector is marked nullable, and raises the bean-not-found error if it is not.
C7_NotFoundByMark ==
    [][(GetValueCalled /\ Matching(last'.input) = {})
          => IF last'.input.nullable
                 THEN last'.err = NoErr /\ ~last'.ok /\ target' = 0
                 ELSE last'.err = "BeanNotFound"]_vars

\* C7, amended: when the selector matches no bean, the field injection of WireBean leaves
\* the field unchanged without raising if the selector is marked nullable and raises the
\* bean-not-found error if it is not; GetBean and GetBeanByName return false without
\* raising and leave the target unchanged whether or not the beanId given carries the
\* nullable mark.  No bean changes status.
C7_NotFound ==
    [][(GetValueCalled /\ Matching(last'.input) = {})
          => /\ target' = 0
             /\ status' = status
             /\ ~last'.ok
             /\ IF last'.op = "WireBean" /\ ~last'.input.nullable
                    THEN last'.err = "BeanNotFound"
                    ELSE last'.err = NoErr]_vars

\* C7: GetBeanByName, given a beanId without the nullable mark that matches none of the
\* registered beans, returned false
C7_UnmarkedReturnsFalse ==
    /\ autoWired /\ phase = "idle" /\ beanMap # {}
    /\ last.op = "GetBeanByName" /\ ~last.input.nullable
    /\ Matching(last.input) = {}
    /\ last.err = NoErr /\ ~last.ok

(***************************************************************************)
(* collectBeans: SpecCollect registers slices of "A" (beans of type "[]A",  *)
(* given as values) and beans of type "A", one of them made by a            *)
(* constructor that fails, runs AutoWireBeans and calls CollectBeans.       *)
(***************************************************************************)
\* A bean that is a slice of n pointers to structs
Slice(n) == [Bean("object", "[]A") EXCEPT !.elems = n]

CollectedBeans ==
    { Slice(0), Slice(2), Object("A", <<>>), [Constructor("A", <<>>) EXCEPT !.ret = "err"] }

NextCollect ==
    \/ \E bean \in CollectedBeans : RegisterBean(bean)
    \/ \E name \in Names, bean \in CollectedBeans : RegisterNameBean(name, bean)
    \/ \E fn \in CollectedBeans : RegisterBeanFn(fn)
    \/ AutoWireBeans
    \/ \E b \in Ids : ResolveStep(b)
    \/ ResolveEnd
    \/ \E b \in Ids, ord \in FinderOrders : WireStep(b, ord)
    \/ WireEnd
    \/ \E t \in SliceTypes, ord \in FinderOrders : CollectBeans(t, ord)

SpecCollect == Init /\ [][NextCollect]_vars

\* The Bean Cache entry of type t, in its order
CacheOf(t) == IF t \in DOMAIN beanCache THEN beanCache[t] ELSE <<>>

\* The elements of the slice beans m[k], m[k+1], ..., slice after slice
RECURSIVE ElementsOf(_, _)
ElementsOf(m, k) ==
    IF k > Len(m) THEN <<>>
    ELSE [i \in 1..defs[m[k]].elems |-> <<m[k], i>>] \o ElementsOf(m, k + 1)

\* The sum of the lengths of the slice beans m[k], m[k+1], ...
RECURSIVE LengthsOf(_, _)
LengthsOf(m, k) == IF k > Len(m) THEN 0 ELSE defs[m[k]].elems + LengthsOf(m, k + 1)

\* The singleton beans m, as elements
SinglesOf(m) == [k \in DOMAIN m |-> <<m[k], 0>>]

\* This step is a CollectBeans call that reached collectBeans
CollectCalled == phase = "idle" /\ autoWired /\ last'.op = "CollectBeans"

\* C11: a collectBeans that raises nothing writes to its slot, when M slice beans are
\* cached under the slot's type and K beans under its element type, the elements of the M
\* slices, in Bean Cache order, followed by the K beans, in Bean Cache order (a sequence of
\* the summed lengths plus K elements), and returns true; when that sequence is empty it
\* raises nothing, returns false and does not write the slot.  The only error it raises
\* is the one raised by the wiring of a collected bean (its constructor fails, or it was
\* left in status Wiring by a call that failed), and then the slot is not written.
C11_CollectedInCacheOrder ==
    [][CollectCalled =>
          LET slices == CacheOf(last'.input.type)
              singles == CacheOf(ElemType(last'.input.type))
              ev == ElementsOf(slices, 1) \o SinglesOf(singles)
          IN /\ beanCache' = beanCache
             /\ last'.err # NoErr <=> \E k \in DOMAIN singles : defs[singles[k]].ret # "ok"
             /\ last'.err # NoErr
                   => /\ ~last'.set /\ ~last'.ok
                      /\ last'.err \in {"ConstructorError", "CircularDependency"}
             /\ (last'.err = NoErr /\ Len(ev) > 0)
                   => /\ last'.ok /\ last'.set
                      /\ last'.collected = ev
                      /\ Len(last'.collected) = LengthsOf(slices, 1) + Len(singles)
             /\ Len(ev) = 0 => (last'.err = NoErr /\ ~last'.ok /\ ~last'.set)]_vars

\* C11: CollectBeans collected the elements of two slices and a singleton bean, the slices
\* standing in the Bean Cache in the reverse of their registration order
C11_TwoSlicesAndSingleton ==
    /\ autoWired /\ phase = "idle"
    /\ last.op = "CollectBeans" /\ last.ok /\ last.set
    /\ Len(CacheOf("[]A")) = 2 /\ Len(CacheOf("A")) = 1
    /\ CacheOf("[]A")[1] > CacheOf("[]A")[2]
    /\ \A k \in 1..2 : defs[CacheOf("[]A")[k]].elems = 2
    /\ Len(last.collected) = 5
    /\ last.collected[5] = <<CacheOf("A")[1], 0>>

(***************************************************************************)
(* The lifecycle of a context: SpecLifecycle installs and removes the event *)
(* observer, registers beans with destroy callbacks (one of them failing    *)
(* its condition, one made by a constructor that fails, one a method bean), *)
(* runs AutoWireBeans, the lookups and Close, in any order.                 *)
(***************************************************************************)
LifecycleBeans ==
    { [Object("A", <<>>) EXCEPT !.destroy = TRUE],
      Object("B", <<>>),
      [Object("B", <<>>) EXCEPT !.cond = FALSE, !.destroy = TRUE],
      [Constructor("B", <<>>) EXCEPT !.ret = "err", !.destroy = TRUE],
      [Method("B", ByType("A")) EXCEPT !.destroy = TRUE] }

NextLifecycle ==
    \/ \E bean \in LifecycleBeans : Small(RegisterBean(bean))
    \/ \E fn \in LifecycleBeans : Small(RegisterBeanFn(fn))
    \/ \E m \in LifecycleBeans : Small(RegisterMethodBean(m))
    \/ \E notify \in BOOLEAN : SetEventNotify(notify)
    \/ AutoWireBeans
    \/ \E b \in Ids : ResolveStep(b)
    \/ ResolveEnd
    \/ \E b \in Ids, ord \in FinderOrders : WireStep(b, ord)
    \/ WireEnd
    \/ \E t \in LookupTypes, ord \in FinderOrders : GetBean(t, ord)
    \/ \E sel \in FindSelectors, ord \in FinderOrders : FindBeanBySelector(sel, ord)
    \/ \E t \in SliceTypes, ord \in FinderOrders : CollectBeans(t, ord)
    \/ \E ext \in Externals, ord \in FinderOrders : WireBean(ext, ord)
    \/ \E ord \in Orders(beanMap) : Close(ord)

SpecLifecycle == Init /\ [][NextLifecycle]_vars

\* This step is a call of Close
CloseCalled == phase = "idle" /\ last'.op = "Close"

\* The positions of the trace tr that hold the event e
At(tr, e) == {i \in DOMAIN tr : tr[i] = e}

\* The context events of the trace tr, in order
RECURSIVE ContextEvents(_)
ContextEvents(tr) ==
    IF tr = <<>> THEN <<>>
    ELSE (IF Head(tr).ev = "event" THEN <<Head(tr).role>> ELSE <<>>) \o ContextEvents(Tail(tr))

\* C12: a call of Close tells the observer, if one is installed, close-start first and
\* close-end last and nothing else; in between it calls the destroy callback of every bean
\* of ctx.beanMap that has one, once, and of no other bean, and then ctx.cancel(), once.
\* No step other than a call of Close cancels the Context.
C12_CloseInOrder ==
    [][/\ cancelled' # cancelled => CloseCalled
       /\ CloseCalled =>
             LET tr == trace'
                 c == At(tr, [ev |-> "cancel", id |-> 0, role |-> "context"])
             IN /\ cancelled'
                /\ Cardinality(c) = 1
                /\ \A i \in DOMAIN tr : tr[i].ev \in {"event", "destroy", "cancel"}
                /\ \A b \in beanMap : defs[b].destroy =>
                      /\ Cardinality(At(tr, Event("destroy", BeanFrame(b)))) = 1
                      /\ \A i \in At(tr, Event("destroy", BeanFrame(b))) : \A j \in c : i < j
                /\ \A i \in DOMAIN tr : tr[i].ev = "destroy" =>
                      (tr[i].id \in beanMap /\ defs[tr[i].id].destroy /\ status[tr[i].id] # "Deleted")
                /\ ContextEvents(tr) = IF eventNotify THEN <<"CloseStart", "CloseEnd">> ELSE <<>>
                /\ eventNotify => /\ tr[1] = ContextEvent("CloseStart")
                                   /\ tr[Len(tr)] = ContextEvent("CloseEnd")
                                   /\ c = {Len(tr) - 1}
                /\ UNCHANGED <<status, beanMap, beanCache>>]_vars

\* C12: Close, with an observer installed, called the destroy callback of the one live
\* bean that has one, and not that of the bean deleted by the resolve phase
C12_ClosedAfterWiring ==
    /\ last.op = "Close" /\ eventNotify /\ cancelled
    /\ Len(trace) = 4
    /\ \E b \in beanMap : defs[b].destroy /\ status[b] = "Wired"
    /\ \E b \in Ids : defs[b].destroy /\ status[b] = "Deleted"

\* This step belongs to a call of AutoWireBeans: its entry or an iteration of its loops
AutoWireStepped == AutoWireEntered \/ phase # "idle"

\* This step ends a call of AutoWireBeans with an error
AutoWireFailed == AutoWireStepped /\ phase' = "idle" /\ last'.err # NoErr

\* This step ends a call of AutoWireBeans without an error
AutoWireReturned == phase = "wire" /\ phase' = "idle" /\ last'.err = NoErr

\* Some definition is moved by resolveBean in this step: it leaves status Default or
\* Resolving, or it becomes Resolving, Resolved or Deleted
ResolveMoved ==
    \E b \in Ids : /\ status'[b] # status[b]
                    /\ \/ status[b] \in {"Default", "Resolving"}
                       \/ status'[b] \in {"Resolving", "Resolved", "Deleted"}

\* The positions of the pushes and pops of the Wiring Stack in the trace tr
StackEvents(tr) == {i \in DOMAIN tr : tr[i].ev \in {"push", "pop"}}

\* C13: with an observer installed, a call of AutoWireBeans that returns has told it
\* resolve-start, resolve-end, autowire-start and autowire-end, once each, in this order,
\* and nothing else, and every push and pop of the Wiring Stack lies between autowire-start
\* and autowire-end; whenever a step of the call moves a definition through resolveBean,
\* resolve-start is the only event told so far; a call that fails tells no autowire-end.
\* Without an observer the call tells no event.
C13_FourEventsInOrder ==
    [][/\ AutoWireReturned =>
             /\ ContextEvents(trace') =
                   IF eventNotify THEN <<"ResolveStart", "ResolveEnd", "AutoWireStart", "AutoWireEnd">>
                   ELSE <<>>
             /\ eventNotify =>
                   \A i \in StackEvents(trace') :
                       /\ \A j \in At(trace', ContextEvent("AutoWireStart")) : j < i
                       /\ \A j \in At(trace', ContextEvent("AutoWireEnd")) : i < j
       /\ (AutoWireStepped /\ ResolveMoved) =>
             /\ phase = "resolve"
             /\ ContextEvents(trace') = IF eventNotify THEN <<"ResolveStart">> ELSE <<>>
       /\ (AutoWireStepped /\ StackEvents(trace') # StackEvents(trace)) =>
             /\ phase = "wire"
             /\ eventNotify => \A i \in StackEvents(trace') : i > 3
       /\ AutoWireFailed =>
             IF AutoWireEntered THEN trace' = trace
             ELSE At(trace', ContextEvent("AutoWireEnd")) = {}]_vars

\* C13: with an observer installed, AutoWireBeans returned after its resolve phase
\* deleted a bean and its wiring phase wired another
C13_ObservedPass ==
    /\ eventNotify /\ phase = "idle"
    /\ last.op = "AutoWireBeans" /\ last.ok
    /\ ContextEvents(trace) = <<"ResolveStart", "ResolveEnd", "AutoWireStart", "AutoWireEnd">>
    /\ StackEvents(trace) # {}
    /\ \E b \in Ids : status[b] = "Deleted"

(***************************************************************************)
(* The order of the wiring loop: SpecOrder registers named and unnamed      *)
(* beans, one of them injecting another, one failing its condition, sets    *)
(* or clears ctx.Sort and runs AutoWireBeans.                               *)
(***************************************************************************)
OrderBeans ==
    { Object("A", <<>>),
      Object("B", <<Field("A", "", FALSE)>>),
      Object("C", <<>>),
      [Object("C", <<>>) EXCEPT !.cond = FALSE] }

NextOrder ==
    \/ \E bean \in OrderBeans : RegisterBean(bean)
    \/ \E name \in Names, bean \in OrderBeans : RegisterNameBean(name, bean)
    \/ \E flag \in BOOLEAN : SetSort(flag)
    \/ AutoWireBeans
    \/ \E b \in Ids : ResolveStep(b)
    \/ ResolveEnd
    \/ \E b \in Ids, ord \in FinderOrders : WireStep(b, ord)
    \/ WireEnd

SpecOrder == Init /\ [][NextOrder]_vars

\* The wiring loop of the current (or last) call of AutoWireBeans has begun
WiringBegun ==
    /\ last.op = "AutoWireBeans" /\ last.err # "AlreadyWired"
    /\ autoWired /\ phase \in {"wire", "idle"}

\* The wiring loop came to no bean twice and only to beans of ctx.beanMap, and once the
\* call has returned it has come to all of them
VisitedOnce ==
    /\ \A i, j \in DOMAIN visited : i # j => visited[i] # visited[j]
    /\ \A i \in DOMAIN visited : visited[i] \in beanMap /\ status[visited[i]] # "Deleted"
    /\ (phase = "idle" /\ last.ok) => {visited[i] : i \in DOMAIN visited} = beanMap

\* C14: with ctx.Sort set, the wiring loop of AutoWireBeans hands the beans of ctx.beanMap
\* to wireBeanDefinition in ascending order of BeanId, each once and none skipped: at any
\* moment the beans it has come to are those of the least BeanIds, and once the call has
\* returned they are all the beans of ctx.beanMap.  (A call that fails stops there.)
C14_SortedByBeanId ==
    (Sort /\ WiringBegun)
        => /\ VisitedOnce
           /\ \A i, j \in DOMAIN visited :
                 i < j => Less(BeanIdOf(defs[visited[i]]), BeanIdOf(defs[visited[j]]))
           /\ \A i \in DOMAIN visited : \A c \in beanMap :
                 Less(BeanIdOf(defs[c]), BeanIdOf(defs[visited[i]]))
                     => \E j \in DOMAIN visited : j < i /\ visited[j] = c

\* C14: a sorted pass over three beans returned, having come to the beans in an order
\* that is not the order of their registration, a bean already wired through a field
\* among them
C14_SortedNotAsRegistered ==
    /\ Sort /\ WiringBegun /\ phase = "idle" /\ last.ok
    /\ Len(visited) = 3
    /\ visited[1] > visited[2]
    /\ \E b \in beanMap : defs[b].deps # <<>>

\* C15, as claimed: with ctx.Sort not set, the wiring loop of AutoWireBeans comes to the
\* beans of ctx.beanMap in the order in which they were registered.
C15_RegistrationOrder ==
    (~Sort /\ WiringBegun) => \A i, j \in DOMAIN visited : i < j => visited[i] < visited[j]

\* C15, amended: with ctx.Sort not set, the wiring loop of AutoWireBeans comes to every
\* bean of ctx.beanMap once, to no bean twice and to no deleted bean; the order is the
\* order of the range over the map ctx.beanMap, which is not fixed.
C15_EachOnceInMapOrder == (~Sort /\ WiringBegun) => VisitedOnce

\* C15: an unsorted pass over three beans returned, having come to the bean registered
\* last first
C15_LastRegisteredFirst ==
    /\ ~Sort /\ WiringBegun /\ phase = "idle" /\ last.ok
    /\ Len(visited) = 3
    /\ visited[1] = 3

(***************************************************************************)
(* Concurrent lookups.  The context takes no lock: MaxSessions threads call *)
(* GetBean, FindBean and CollectBeans at the same time, each call on an     *)
(* assembly (and a Wiring Stack) of its own.  A call is cut into steps at   *)
(* its accesses to the context: the check of ctx.autoWired, the read of a   *)
(* Bean Cache entry, each top-level call of wireBeanDefinition (FindBean:   *)
(* the whole finder), the write of the caller's target.  The steps of the   *)
(* threads interleave in any order.                                         *)
(***************************************************************************)
Threads == 1..MaxSessions

\* What a step of a thread that ran the assembly on session s leaves in the context
Shared(s) ==
    /\ status' = s.status
    /\ hist' = s.hist
    /\ dispatched' = s.dispatched
    /\ called' = s.called
    /\ beanMap' = s.beanMap
    /\ beanCache' = s.beanCache
    /\ vals' = s.vals
    /\ provCnt' = s.provCnt
    /\ initCnt' = s.initCnt
    /\ wiredCnt' = s.wiredCnt

\* What a step of a thread does not touch
Private ==
    UNCHANGED <<defs, parent, methodBeans, autoWired, wiringStack, target, phase, todo, invoked,
                eventNotify, Sort, cancelled, visited, trace, last>>

\* The calls the threads make
ThreadCalls ==
    { [op |-> "GetBean", input |-> Input("A", AnyBean)],
      [op |-> "FindBean", input |-> [NoInput EXCEPT !.type = "A"]],
      [op |-> "CollectBeans", input |-> [NoInput EXCEPT !.type = "[]A"]] }

\* The call of thread p is over, with a panic if e is an error
Over(se, e) == [se EXCEPT !.pc = "done", !.err = e, !.queue = <<>>, !.wired = <<>>]

\* The frame wireBeanDefinition is given for the element e of a collection
FrameOf(e) == IF e[2] = 0 THEN BeanFrame(e[1]) ELSE ElementFrame(e[1])

\* The elements of the slice beans m[k], m[k+1], ..., as collectBeans comes to them
RECURSIVE elementsFrom(_, _)
elementsFrom(m, k) ==
    IF k > Len(m) THEN <<>>
    ELSE [i \in 1..defs[m[k]].elems |-> <<m[k], i>>] \o elementsFrom(m, k + 1)

\* Thread p enters GetBean, FindBean or CollectBeans: checkAutoWired
Begin(p, call) ==
    /\ phase = "idle"
    /\ sessions[p].pc = "idle"
    /\ sessions' = [sessions EXCEPT ![p] =
           IF ~checkAutoWired
               THEN Over([NoSession EXCEPT !.op = call.op, !.input = call.input], "NotYetWired")
               ELSE [NoSession EXCEPT !.op = call.op, !.input = call.input, !.pc = "select"]]
    /\ UNCHANGED <<status, hist, dispatched, called, beanMap, beanCache, vals, provCnt, initCnt, wiredCnt>>
    /\ Private

\* The candidates of getBeanValue are read from the Bean Cache and one is chosen
selectBean(se, s) ==
    LET result == Candidates(s, se.input.type, se.input, 0)
        primaryBeans == PrimaryBeans(result)
        chosen == IF Len(primaryBeans) = 0 THEN result[1] ELSE primaryBeans[1]
    IN IF ~IsRefType(se.input.type) THEN Over(se, "InvalidTarget")
       ELSE IF Len(result) = 0
           THEN (IF se.input.nullable THEN Over(se, NoErr) ELSE Over(se, "BeanNotFound"))
       ELSE IF Len(primaryBeans) > 1 THEN Over(se, "AmbiguousPrimary")
       ELSE IF Len(primaryBeans) = 0 /\ Len(result) > 1 THEN Over(se, "AmbiguousBean")
       ELSE [se EXCEPT !.pc = "wire", !.queue = <<<<chosen, 0>>>>]

\* Thread p reads the Bean Cache (GetBean, CollectBeans) or runs the finder (FindBean)
Select(p, ord) ==
    LET se == sessions[p]
        s == Session(se.stack, <<>>, ord, NoExt)
        fs == FindBean(s, ByType(se.input.type))
    IN /\ se.pc = "select"
       /\ IF se.op = "FindBean"
              THEN /\ Shared(fs)
                   /\ sessions' = [sessions EXCEPT ![p] =
                          [Over(se, fs.err) EXCEPT !.ok = fs.err = NoErr /\ fs.ok,
                                                   !.found = IF fs.err = NoErr THEN fs.found ELSE 0]]
          ELSE /\ UNCHANGED <<status, hist, dispatched, called, beanMap, beanCache, vals, provCnt, initCnt, wiredCnt>>
               /\ sessions' = [sessions EXCEPT ![p] =
                      IF se.op = "GetBean" THEN selectBean(se, s)
                      ELSE [se EXCEPT !.pc = "elements",
                                      !.queue = elementsFrom(getCacheItem(s, se.input.type), 1)]]
       /\ Private

\* Thread p hands the next bean, or the next element of a slice, to wireBeanDefinition
WireNext(p, ord) ==
    LET se == sessions[p]
        s == wireBeanDefinition(Session(se.stack, <<>>, ord, NoExt), FrameOf(Head(se.queue)))
    IN /\ se.pc \in {"elements", "wire"}
       /\ se.queue # <<>>
       /\ Shared(s)
       /\ sessions' = [sessions EXCEPT ![p] =
              IF s.err # NoErr THEN [Over(se, s.err) EXCEPT !.stack = s.wiringStack]
              ELSE [se EXCEPT !.queue = Tail(@), !.wired = Append(@, Head(se.queue)),
                              !.stack = s.wiringStack]]
       /\ Private

\* Thread p, in collectBeans, is through with the slices and reads the Bean Cache entry
\* of the element type
ReadSingles(p) ==
    LET se == sessions[p]
        m == getCacheItem(Session(se.stack, <<>>, <<>>, NoExt), ElemType(se.input.type))
    IN /\ se.pc = "elements"
       /\ se.queue = <<>>
       /\ sessions' = [sessions EXCEPT ![p] =
              [se EXCEPT !.pc = "wire", !.queue = [k \in DOMAIN m |-> <<m[k], 0>>]]]
       /\ UNCHANGED <<status, hist, dispatched, called, beanMap, beanCache, vals, provCnt, initCnt, wiredCnt>>
       /\ Private

\* Thread p writes what it wired to its target and returns
Finish(p) ==
    LET se == sessions[p]
    IN /\ se.pc = "wire"
       /\ se.queue = <<>>
       /\ sessions' = [sessions EXCEPT ![p] =
              IF se.op = "GetBean"
                  THEN [Over(se, NoErr) EXCEPT !.ok = TRUE, !.target = se.wired[1][1]]
                  ELSE [Over(se, NoErr) EXCEPT !.ok = Len(se.wired) > 0, !.collected = se.wired]]
       /\ UNCHANGED <<status, hist, dispatched, called, beanMap, beanCache, vals, provCnt, initCnt, wiredCnt>>
       /\ Private

\* The caller of thread p has taken the result
Return(p) ==
    /\ sessions[p].pc = "done"
    /\ sessions' = [sessions EXCEPT ![p] = NoSession]
    /\ UNCHANGED <<status, hist, dispatched, called, beanMap, beanCache, vals, provCnt, initCnt, wiredCnt>>
    /\ Private

ConcurrentBeans ==
    { Object("A", <<>>), Slice(2), [Constructor("A", <<>>) EXCEPT !.ret = "err"] }

NextConcurrent ==
    \/ \E bean \in ConcurrentBeans : Small(RegisterBean(bean))
    \/ \E fn \in ConcurrentBeans : Small(RegisterBeanFn(fn))
    \/ AutoWireBeans
    \/ \E b \in Ids : ResolveStep(b)
    \/ ResolveEnd
    \/ \E b \in Ids, ord \in FinderOrders : WireStep(b, ord)
    \/ WireEnd
    \/ \E p \in Threads, call \in ThreadCalls : Begin(p, call)
    \/ \E p \in Threads, ord \in FinderOrders : Select(p, ord)
    \/ \E p \in Threads, ord \in FinderOrders : WireNext(p, ord)
    \/ \E p \in Threads : ReadSingles(p)
    \/ \E p \in Threads : Finish(p)
    \/ \E p \in Threads : Return(p)

SpecConcurrent == Init /\ [][NextConcurrent]_vars

\* The last call on the context, but for those of the threads, is an AutoWireBeans that
\* returned without error
PassReturned == phase = "idle" /\ last.op = "AutoWireBeans" /\ last.ok

\* What the call of session se returns when it runs alone on the context as it is
Alone(se, ord) ==
    LET s0 == Session(<<>>, <<>>, ord, NoExt)
        s == CASE se.op = "GetBean" -> getBeanValue(s0, se.input.type, se.input, 0, <<0, 0>>)
               [] se.op = "FindBean" -> FindBean(s0, ByType(se.input.type))
               [] se.op = "CollectBeans" -> collectBeans(s0, se.input.type)
    IN [err |-> s.err, ok |-> s.err = NoErr /\ s.ok,
        found |-> IF s.err = NoErr THEN s.found ELSE 0,
        target |-> s.target,
        collected |-> IF s.set THEN s.collected ELSE <<>>]

\* What the call of session se returned
Returned(se) ==
    [err |-> se.err, ok |-> se.ok, found |-> se.found, target |-> se.target,
     collected |-> se.collected]

ResolveBeans ==
    { Object("A", <<>>),
      [Object("A", <<>>) EXCEPT !.exports = <<"I">>],
      [Object("B", <<>>) EXCEPT !.exports = <<"I">>],
      [Object("C", <<>>) EXCEPT !.cond = FALSE],
      Method("B", ByType("C")),
      Method("A", ByType("B")) }

ResolveTypes == {"A", "B", "I"}

NextResolve ==
    \/ \E bean \in ResolveBeans : RegisterBean(bean)
    \/ \E m \in ResolveBeans : RegisterMethodBean(m)
    \/ AutoWireBeans
    \/ \E b \in Ids : ResolveStep(b)
    \/ ResolveEnd
    \/ \E b \in Ids, ord \in FinderOrders : WireStep(b, ord)
    \/ WireEnd
    \/ \E t \in ResolveTypes, ord \in FinderOrders : GetBean(t, ord)
    \/ \E t \in ResolveTypes, ord \in FinderOrders : FindBeanBySelector(ByType(t), ord)

SpecResolve == Init /\ [][NextResolve]_vars

\* The statuses a definition may be moved to from status st
After(st) ==
    CASE st = "Default" -> {"Resolving", "Resolved", "Wiring", "Wired", "Deleted"}
      [] st = "Resolving" -> {"Resolved", "Wiring", "Wired", "Deleted"}
      [] st = "Resolved" -> {"Wiring", "Wired", "Deleted"}
      [] st = "Wiring" -> {"Wired"}
      [] OTHER -> {}

\* C17: the status of a definition starts at Default and every assignment to it moves it
\* forward along Default, Resolving, Resolved, Wiring, Wired, or to Deleted from Default,
\* Resolving or Resolved: it never moves back, never leaves Wired or Deleted, and never
\* becomes Deleted from Wiring or Wired.
C17_StatusForward ==
    \A b \in Ids :
        /\ hist[b][1] = "Default"
        /\ status[b] = hist[b][Len(hist[b])]
        /\ \A i \in 1..(Len(hist[b]) - 1) : hist[b][i + 1] \in After(hist[b][i])
        /\ wiredCnt[b] <= 1

\* C17: after a pass that failed in its resolve phase, a lookup wired a bean that the
\* pass had left in status Resolving, while another bean is Deleted
C17_WiredFromResolving ==
    /\ \E b \in Ids : hist[b] = <<"Default", "Resolving", "Wiring", "Wired">>
    /\ \E b \in Ids : hist[b] = <<"Default", "Resolving", "Deleted">>

\* The types the Bean Cache holds definition b under, one for each time it holds it
CachedUnder(b) ==
    {<<u, i>> \in UNION {{u} \X DOMAIN beanCache[u] : u \in DOMAIN beanCache} :
        beanCache[u][i] = b}

\* C18: no definition in status Deleted is in the Bean Cache, under any type, or in
\* ctx.beanMap.
C18_NoDeletedBeanKept ==
    \A b \in Ids : status[b] = "Deleted" => (CachedUnder(b) = {} /\ b \notin beanMap)

\* C18: a method bean was deleted because its parent was, while the Bean Cache holds
\* another bean under its type and under the type it exports
C18_DeletedWithParent ==
    /\ \E b \in Ids : status[b] = "Deleted" /\ parent[b] # 0 /\ status[parent[b]] = "Deleted"
    /\ \E u \in DOMAIN beanCache : u \in Interfaces /\ beanCache[u] # <<>>

\* Definition b fails its condition, or is a method bean on a parent that is to be deleted
RECURSIVE ToBeDeleted(_)
ToBeDeleted(b) == ~defs[b].cond \/ (parent[b] # 0 /\ ToBeDeleted(parent[b]))

\* This step ends the resolve loop of AutoWireBeans
ResolveEnded == phase = "resolve" /\ phase' = "wire"

\* C19: when the resolve loop of AutoWireBeans has ended without a panic, every
\* definition that fails its condition and every method bean on a deleted parent (or on a
\* method bean deleted for its parent) is Deleted and out of ctx.beanMap and of the Bean
\* Cache; every other definition is Resolved, in ctx.beanMap, and held by the Bean Cache
\* once under its type, once under each of its export types and under no other type.  A
\* Deleted definition has never been in status Wiring: it was never pushed on a Wiring
\* Stack.
C19_ResolvedOrDeleted ==
    [][/\ ResolveEnded =>
             \A b \in Ids :
                 IF ToBeDeleted(b)
                     THEN status[b] = "Deleted" /\ b \notin beanMap /\ CachedUnder(b) = {}
                     ELSE /\ status[b] = "Resolved"
                          /\ b \in beanMap
                          /\ {c[1] : c \in CachedUnder(b)} =
                                {defs[b].type} \cup {defs[b].exports[k] : k \in DOMAIN defs[b].exports}
                          /\ Cardinality(CachedUnder(b)) = 1 + Len(defs[b].exports)
       /\ \A b \in Ids : status'[b] = "Deleted" =>
             (\A i \in DOMAIN hist'[b] : hist'[b][i] # "Wiring")
                 /\ provCnt'[b] = 0 /\ \A i \in DOMAIN trace' : trace'[i].id # b]_vars

\* C19: the resolve loop has ended with three definitions: one deleted for its condition,
\* a method bean deleted with it, and a bean held under its type and its export type
C19_ResolvePhaseOver ==
    /\ phase = "wire" /\ visited = <<>> /\ todo = beanMap
    /\ \E b \in Ids : ~defs[b].cond /\ status[b] = "Deleted"
    /\ \E b \in Ids : defs[b].cond /\ status[b] = "Deleted"
    /\ \E b \in beanMap : defs[b].exports # <<>> /\ Cardinality(CachedUnder(b)) = 2

(***************************************************************************)
(* dependsOn: SpecDepends registers beans that name a type they depend on,  *)
(* with no bean, one bean or two beans of that type registered, and with    *)
(* the bean of that type holding a field or an argument that leads back.    *)
(***************************************************************************)
DependsBeans ==
    { Object("A", <<>>),
      [Object("A", <<>>) EXCEPT !.dependsOn = <<ByType("B")>>],
      Object("B", <<>>),
      Object("B", <<Field("A", "", FALSE)>>),
      Constructor("B", <<Arg("A")>>),
      [Constructor("C", <<>>) EXCEPT !.dependsOn = <<ByType("B")>>] }

NextDepends ==
    \/ \E bean \in DependsBeans : RegisterBean(bean)
    \/ \E name \in Names : RegisterNameBean(name, Object("B", <<>>))
    \/ \E fn \in DependsBeans : RegisterBeanFn(fn)
    \/ AutoWireBeans
    \/ \E b \in Ids : ResolveStep(b)
    \/ ResolveEnd
    \/ \E b \in Ids, ord \in FinderOrders : WireStep(b, ord)
    \/ WireEnd

SpecDepends == Init /\ [][NextDepends]_vars

\* The beans of ctx.beanMap the k-th dependsOn selector of bean b selects
DependsOn(b, k) == {c \in beanMap : SelectorMatches(defs[b].dependsOn[k], defs[c])}

\* The dependsOn selectors of bean b that do not select exactly one bean, those before
\* them selecting one bean each, which is Wired after the step
Unresolved(b) ==
    {k \in DOMAIN defs[b].dependsOn :
        /\ Cardinality(DependsOn(b, k)) # 1
        /\ \A j \in 1..(k - 1) : /\ Cardinality(DependsOn(b, j)) = 1
                                 /\ \A c \in DependsOn(b, j) : status'[c] = "Wired"}

\* This step begins the wiring of bean b
WiringBegins(b) ==
    /\ \A i \in DOMAIN hist[b] : hist[b][i] # "Wiring"
    /\ \E i \in DOMAIN hist'[b] : hist'[b][i] = "Wiring"

\* This step dispatches the provider of bean b
Dispatched(b) == Len(dispatched'[b]) > Len(dispatched[b])

\* The dependsOn selectors of bean b select the beans r was taken from
EachSelected(b, r) ==
    /\ {x.on : x \in r} = UNION {DependsOn(b, k) : k \in DOMAIN defs[b].dependsOn}
    /\ \A k \in DOMAIN defs[b].dependsOn : Cardinality(DependsOn(b, k)) = 1

\* C20, as stated: whenever the provider of a bean is dispatched, every bean its dependsOn
\* selectors select is Wired; a dependsOn selector that does not select exactly one bean
\* makes the wiring fail with the bean-not-found error before the provider is dispatched.
C20_DependsOnWiredFirst ==
    [][\A b \in Ids :
          /\ Dispatched(b) =>
                \A i \in DOMAIN dispatched'[b] :
                    /\ EachSelected(b, dispatched'[b][i])
                    /\ \A x \in dispatched'[b][i] : x.status = "Wired"
          /\ (WiringBegins(b) /\ Unresolved(b) # {}) =>
                /\ ~Dispatched(b) /\ provCnt'[b] = 0
                /\ phase' = "idle" /\ last'.op = "AutoWireBeans"
                /\ last'.err = "BeanNotFound"]_vars

\* C20, amended: whenever the provider of a bean is dispatched, each of its dependsOn
\* selectors selects one bean, and that bean is Wired or is an object bean that is being
\* wired (status Wiring, on the Wiring Stack: the wiring of the bean was reached from it);
\* a dependsOn selector that selects no bean makes the wiring fail with the bean-not-found
\* error and one that selects more than one bean with the error of FindBean that lists
\* them, before the provider is dispatched.
C20_DependsOnWiredOrWiring ==
    [][\A b \in Ids :
          /\ Dispatched(b) =>
                \A i \in DOMAIN dispatched'[b] :
                    /\ EachSelected(b, dispatched'[b][i])
                    /\ \A x \in dispatched'[b][i] :
                          \/ x.status = "Wired"
                          \/ x.status = "Wiring" /\ x.wiring /\ defs[x.on].kind = "object"
          /\ (WiringBegins(b) /\ Unresolved(b) # {}) =>
                /\ ~Dispatched(b) /\ provCnt'[b] = 0
                /\ phase' = "idle" /\ last'.op = "AutoWireBeans"
                /\ \A k \in Unresolved(b) :
                      IF DependsOn(b, k) = {}
                          THEN last'.err = "BeanNotFound"
                          ELSE /\ last'.err = "AmbiguousBean"
                               /\ {last'.errBeans[i] : i \in DOMAIN last'.errBeans} = DependsOn(b, k)]_vars

\* C20: AutoWireBeans has returned without error, and the provider of a bean was
\* dispatched while the bean its dependsOn selector selects was in status Wiring
C20_DispatchedInsideCycle ==
    /\ phase = "idle" /\ last.op = "AutoWireBeans" /\ last.ok
    /\ \E b \in beanMap : \E i \in DOMAIN dispatched[b] : \E x \in dispatched[b][i] :
          x.status = "Wiring" /\ status[x.on] = "Wired" /\ status[b] = "Wired"

(***************************************************************************)
(* The beans a function works on, under SpecGraph.                          *)
(***************************************************************************)
\* The function of bean b was called with its receiver, if b is a method bean, and
\* with a bean for each of its arguments
ReceiverAndArguments(b, r) ==
    /\ defs[b].kind = "method" => \E x \in r : x.via = "parent" /\ x.on = parent[b]
    /\ \A k \in DOMAIN defs[b].deps :
          defs[b].deps[k].via = "arg" =>
              \E x \in r : x.via = "arg" /\ AssignableTo(defs[x.on].type, defs[b].deps[k].type)

\* C21, as stated: whenever the function of a method bean is called its parent is Wired,
\* and whenever the function of a constructor or method bean is called every bean
\* injected as one of its arguments is Wired.
C21_ParentAndArgumentsWired ==
    \A b \in Ids : \A i \in DOMAIN called[b] :
        /\ ReceiverAndArguments(b, called[b][i])
        /\ \A x \in called[b][i] : x.status = "Wired"

\* C21, amended: whenever the function of a constructor or method bean is called, the
\* parent of a method bean and every bean injected as an argument is Wired, or is an
\* object bean in status Wiring that is on the Wiring Stack: the wiring of the function
\* bean was reached from a field of that bean, whose injection and init callback have not
\* completed.
C21_ParentAndArgumentsWiredOrWiring ==
    \A b \in Ids : \A i \in DOMAIN called[b] :
        /\ ReceiverAndArguments(b, called[b][i])
        /\ \A x \in called[b][i] :
              \/ x.status = "Wired" /\ wiredCnt[x.on] = 1
              \/ /\ x.status = "Wiring" /\ x.wiring /\ defs[x.on].kind = "object"
                 /\ OnCycle(x.on) /\ OnCycle(b)

\* C21: AutoWireBeans has returned without error, and the function of a method bean was
\* called while its parent, an object bean with a field that led to it, was in status Wiring
C21_CalledOnUnwiredParent ==
    /\ PassOver /\ last.err = NoErr
    /\ \E b \in beanMap : \E i \in DOMAIN called[b] : \E x \in called[b][i] :
          x.via = "parent" /\ x.status = "Wiring" /\ status[b] = "Wired"

(***************************************************************************)
(* Providers that fail: SpecFailure registers a constructor and a method    *)
(* that return an error or nil, object beans that hold them in a field and  *)
(* object beans that hold each other, and runs AutoWireBeans with or        *)
(* without an observer of the context events.                               *)
(***************************************************************************)
FailureBeans ==
    { Object("A", <<Field("B", "", FALSE)>>),
      Object("B", <<Field("A", "", FALSE)>>),
      Object("B", <<Field("C", "", FALSE)>>),
      Object("A", <<>>),
      [Constructor("C", <<>>) EXCEPT !.ret = "err"],
      [Constructor("C", <<>>) EXCEPT !.ret = "nil"],
      [Method("C", ByType("A")) EXCEPT !.ret = "err"],
      [Method("B", ByType("A")) EXCEPT !.ret = "nil"] }

NextFailure ==
    \/ \E bean \in FailureBeans : RegisterBean(bean)
    \/ \E fn \in FailureBeans : RegisterBeanFn(fn)
    \/ \E m \in FailureBeans : RegisterMethodBean(m)
    \/ SetEventNotify(TRUE)
    \/ AutoWireBeans
    \/ \E b \in Ids : ResolveStep(b)
    \/ ResolveEnd
    \/ \E b \in Ids, ord \in FinderOrders : WireStep(b, ord)
    \/ WireEnd

SpecFailure == Init /\ [][NextFailure]_vars

\* The error a provider that returns ret makes the wiring fail with
ProviderError(ret) == IF ret = "err" THEN "ConstructorError" ELSE "NilBean"

\* The provider of function bean f is called in this step of the wiring loop and returns
\* an error or nil
ProviderFails(f) == phase = "wire" /\ provCnt'[f] > provCnt[f] /\ defs[f].ret # "ok"

\* The registered beans that have a frame on the Wiring Stack after this step
Stacked == {wiringStack'[i].id : i \in {j \in DOMAIN wiringStack' : wiringStack'[j].role = "bean"}}

\* AutoWireBeans has failed because a provider returned an error or nil
ProviderFailed ==
    PassOver /\ last.err \in {"ConstructorError", "NilBean"}

\* C22: when a constructor or method provider returns an error or nil during AutoWireBeans,
\* the call fails with the constructor error or the nil-bean error, naming the bean; the
\* failing bean and every bean on the Wiring Stack at that moment are not Wired and their
\* init callbacks have not run; no autowire-end is told; and after the failure no bean
\* is wired, no provider and no init callback runs.
C22_ProviderFailureAborts ==
    [][/\ \A f \in Ids : ProviderFails(f) =>
             /\ phase' = "idle" /\ todo' = {}
             /\ last'.op = "AutoWireBeans"
             /\ last'.err = ProviderError(defs[f].ret)
             /\ last'.errBeans = <<f>>
             /\ \A b \in {f} \cup Stacked : status'[b] # "Wired" /\ initCnt'[b] = 0
             /\ At(trace', ContextEvent("AutoWireEnd")) = {}
       /\ ProviderFailed =>
             UNCHANGED <<status, provCnt, initCnt, wiredCnt, vals, trace>>]_vars

(***************************************************************************)
(* wireBeanDefinition on a definition that is Wired or Deleted, under       *)
(* SpecOrder: the wiring loop comes to beans that were wired for the field  *)
(* of another bean, and a bean that failed its condition is Deleted.        *)
(***************************************************************************)
\* The session an assembly with the current Wiring Stack works on
Assembly(ord) == Session(wiringStack, trace, ord, NoExt)

\* C23: wireBeanDefinition on a definition in status Wired returns the session as it was
\* given it: no frame pushed, no observer told, no provider and no init callback run, no
\* status, cache entry or field changed, no error; on a definition in status Deleted it
\* changes nothing either and raises the invalid-state error, naming the definition.
C23_WiredAndDeletedUntouched ==
    \A b \in Ids, ord \in FinderOrders :
        /\ status[b] = "Wired" =>
              wireBeanDefinition(Assembly(ord), BeanFrame(b)) = Assembly(ord)
        /\ status[b] = "Deleted" =>
              wireBeanDefinition(Assembly(ord), BeanFrame(b)) =
                  [Assembly(ord) EXCEPT !.err = "InvalidState", !.errBeans = <<b>>]

\* C23: the wiring loop has come to a bean that was Wired already, for the field of the
\* bean the loop came to first, and has left no second push of it; another bean is Deleted
C23_LoopCameToWiredBean ==
    /\ phase = "wire" /\ Len(visited) = 2
    /\ vals[visited[1]] = <<visited[2]>>
    /\ Cardinality(At(trace, Event("push", BeanFrame(visited[2])))) = 1
    /\ status[visited[2]] = "Wired" /\ wiredCnt[visited[2]] = 1
    /\ \E c \in Ids : status[c] = "Deleted"

(***************************************************************************)
(* The balance of the Wiring Stack, under SpecGraph.                        *)
(***************************************************************************)
\* The positions of the trace at which the observers were told event ev
Told(ev) == {i \in DOMAIN trace : trace[i].ev = ev}

\* C24: every call of wireBeanDefinition that returns without error leaves the Wiring
\* Stack as it found it: between two iterations of the wiring loop of AutoWireBeans and
\* after an AutoWireBeans that returned without error, the Wiring Stack is empty, the
\* observers were told as many pops as pushes, and a pop told right after the init
\* callback of a bean, the last thing its wiring does before it pops, names that bean.
C24_StackBalanced ==
    (phase = "wire" \/ (PassOver /\ last.err = NoErr)) =>
        /\ wiringStack = <<>>
        /\ Cardinality(Told("pop")) = Cardinality(Told("push"))
        /\ \A i \in Told("pop") :
              (i > 1 /\ trace[i - 1].ev = "init") =>
                  (trace[i].id = trace[i - 1].id /\ trace[i].role = trace[i - 1].role)

(***************************************************************************)
(* Calls after a call that failed: SpecRecover registers a constructor that *)
(* returns an error, beans that ask for its bean, two constructors that ask *)
(* for each other and a bean with an export type it does not implement,     *)
(* runs AutoWireBeans and then the lookups.                                 *)
(***************************************************************************)
RecoverBeans ==
    { Object("A", <<>>),
      Object("A", <<Field("C", "", FALSE)>>),
      [Constructor("C", <<>>) EXCEPT !.ret = "err"],
      Constructor("A", <<Arg("C")>>),
      Constructor("C", <<Arg("A")>>),
      [Object("B", <<>>) EXCEPT !.exports = <<"I">>] }

RecoverTypes == {"A", "C"}

NextRecover ==
    \/ \E bean \in RecoverBeans : RegisterBean(bean)
    \/ \E fn \in RecoverBeans : RegisterBeanFn(fn)
    \/ AutoWireBeans
    \/ \E b \in Ids : ResolveStep(b)
    \/ ResolveEnd
    \/ \E b \in Ids, ord \in FinderOrders : WireStep(b, ord)
    \/ WireEnd
    \/ \E t \in RecoverTypes, ord \in FinderOrders : GetBean(t, ord)
    \/ \E t \in SliceTypes, ord \in FinderOrders : CollectBeans(t, ord)
    \/ \E ext \in Externals, ord \in FinderOrders : WireBean(ext, ord)

SpecRecover == Init /\ [][NextRecover]_vars

\* No definition is in status Wiring
NoneWiring == \A b \in Ids : status[b] # "Wiring"

\* The frames of bean b on the Wiring Stack after this step
FramesOf(b) == {i \in DOMAIN wiringStack' : wiringStack'[i] = BeanFrame(b)}

\* This step is a call of GetBean that returned true
GetBeanFound == phase = "idle" /\ last'.op = "GetBean" /\ last'.ok

\* C25, as stated: outside a running wiring call no definition is in status Wiring; the
\* circular-dependency error names a bean that entered wiring in the call that raises it
\* and is reached again from it; the bean GetBean hands to its target is Wired.
C25_WiringOnlyWhileWired ==
    [][/\ phase' = "idle" => \A b \in Ids : status'[b] # "Wiring"
       /\ (last' # last /\ last'.err = "CircularDependency") =>
             \A i \in DOMAIN last'.errBeans :
                 /\ hist'[last'.errBeans[i]] # hist[last'.errBeans[i]]
                 /\ Cardinality(FramesOf(last'.errBeans[i])) >= 2
       /\ GetBeanFound => status'[target'] = "Wired"]_vars

\* C25, amended: a definition is left in status Wiring only by a call that fails, and
\* it then has a frame on the Wiring Stack of that call; nothing takes it out of Wiring
\* afterwards.  As long as no definition is in status Wiring when a call starts, the
\* circular-dependency error names a constructor or method bean that entered wiring in
\* this call and is reached again from it, and the bean GetBean hands to its target is
\* Wired.  Once a failed call has left a definition in status Wiring, a later call that
\* reaches it fails with the circular-dependency error if it is a constructor or method
\* bean, and is handed it as it is if it is an object bean.
C25_WiringLeftByFailedCall ==
    [][/\ \A b \in Ids : (status[b] # "Wiring" /\ status'[b] = "Wiring") =>
             /\ phase' = "idle" /\ last'.err # NoErr
             /\ FramesOf(b) # {}
       /\ \A b \in Ids : (status[b] = "Wiring" /\ phase = "idle") => status'[b] = "Wiring"
       /\ (NoneWiring /\ last' # last /\ last'.err = "CircularDependency") =>
             \A i \in DOMAIN last'.errBeans :
                 /\ defs[last'.errBeans[i]].kind # "object"
                 /\ hist'[last'.errBeans[i]] # hist[last'.errBeans[i]]
                 /\ Cardinality(FramesOf(last'.errBeans[i])) >= 2
       /\ (NoneWiring /\ GetBeanFound) => status'[target'] = "Wired"
       /\ \A b \in Ids : (status[b] = "Wiring" /\ GetBeanFound /\ target' = b) =>
             defs[b].kind = "object" /\ UNCHANGED <<status, provCnt, initCnt, vals>>
       /\ (phase = "idle" /\ last' # last /\ last'.err = "CircularDependency"
              /\ \E i \in DOMAIN last'.errBeans : status[last'.errBeans[i]] = "Wiring") =>
             \A i \in DOMAIN last'.errBeans :
                 defs[last'.errBeans[i]].kind # "object" /\ Cardinality(FramesOf(last'.errBeans[i])) = 1]_vars

\* C25: AutoWireBeans failed on a constructor that returned an error and left it in
\* status Wiring; a later GetBean of its type failed with the circular-dependency error
\* with one frame of the bean, the one this call pushed, on its Wiring Stack
C25_CircleWithoutCycle ==
    /\ phase = "idle" /\ last.op = "GetBean" /\ last.err = "CircularDependency"
    /\ \E b \in beanMap :
          /\ last.errBeans = <<b>>
          /\ defs[b].ret = "err" /\ defs[b].deps = <<>>
          /\ hist[b] = <<"Default", "Resolving", "Resolved", "Wiring">>
          /\ wiringStack = <<BeanFrame(b)>>

====
